---------------------------- MODULE Spec2Model ----------------------------
(***************************************************************************)
(* The wire-protocol codecs of convex-rs: Value <-> JSON                   *)
(* (src/src/value/json/mod.rs) and the sync-protocol messages <-> JSON     *)
(* (src/sync_types/src/json.rs, src/sync_types/src/types.rs).              *)
(*                                                                         *)
(* The codecs are pure functions, so the state machine is a harness around *)
(* them: a run starts either from a typed value, which is encoded and the  *)
(* encoding decoded again, or from a JSON document, which is decoded and   *)
(* the result encoded again.                                               *)
(*                                                                         *)
(* Representation.  A character is a one-character string and a Rust       *)
(* String is a sequence of characters, so that prefixes, concatenation and *)
(* base64 are computed.  A 64-bit word (u64, i64, the bits of an f64) is    *)
(* four 16-bit limbs, least significant first.  A serde_json value is a    *)
(* pair <<tag, payload>>; a JSON object's payload is a function from its   *)
(* keys.                                                                   *)
(***************************************************************************)
EXTENDS Integers, Sequences, FiniteSets, TLC

VARIABLES
    family,   \* which codec the run exercises
    dir,      \* "enc": typed -> JSON -> typed;  "dec": JSON -> typed -> JSON
    pc,       \* position of the run
    val,      \* the typed input of an "enc" run
    json,     \* the encoder's output ("enc") or the JSON input ("dec")
    res,      \* the decoder's result: Ok(v) or Err(kind)
    json2,    \* the re-encoding of a decoded value ("dec")
    res2      \* the decoder's result on json2 ("dec")

vars == <<family, dir, pc, val, json, res, json2, res2>>

----------------------------------------------------------------------------
(* Bounds of the model.                                                    *)

\* Largest number of elements of an Array, Set, Map or Object input.
MaxLen == 2

\* The optional fields a UserIdentityAttributes input sets, unless it sets all.
MaxPresent == 2

----------------------------------------------------------------------------
(* Generic helpers.                                                        *)

Range(f) == {f[x] : x \in DOMAIN f}

\* The value of a variable the run has not set yet.
Unset == <<"Unset", 0>>

Ok(v) == [ok |-> TRUE, v |-> v]
Err(e) == [ok |-> FALSE, err |-> e]

None == [some |-> FALSE]
Some(x) == [some |-> TRUE, x |-> x]

\* The sequences that list every element of the finite set S exactly once.
Perms(S) ==
    {p \in [1..Cardinality(S) -> S] : \A i, j \in 1..Cardinality(S) : p[i] = p[j] => i = j}

\* The sequences that take their i-th element from the set ss[i].
ChooseEach(ss) ==
    IF Len(ss) = 0 THEN {<<>>}
    ELSE {s \in [1..Len(ss) -> UNION Range(ss)] : \A i \in 1..Len(ss) : s[i] \in ss[i]}

RECURSIVE Flatten(_)
Flatten(ss) == IF ss = <<>> THEN <<>> ELSE Head(ss) \o Flatten(Tail(ss))

----------------------------------------------------------------------------
(* Bytes, 64-bit words and base64 (the base64 crate, standard alphabet).    *)

\* u64::to_le_bytes / i64::to_le_bytes / f64::to_le_bytes on four 16-bit limbs.
ToLeBytes(w) == Flatten([i \in 1..4 |-> <<w[i] % 256, w[i] \div 256>>])

\* A from_be_bytes in the place of from_le_bytes.
FromLeBytes_BigEndian(b) == [i \in 1..4 |-> b[10 - 2 * i] + 256 * b[9 - 2 * i]]

\* u64::from_le_bytes on 8 bytes.
FromLeBytes(b) == [i \in 1..4 |-> b[2 * i - 1] + 256 * b[2 * i]]

B64Alphabet ==
    << "A","B","C","D","E","F","G","H","I","J","K","L","M","N","O","P",
       "Q","R","S","T","U","V","W","X","Y","Z","a","b","c","d","e","f",
       "g","h","i","j","k","l","m","n","o","p","q","r","s","t","u","v",
       "w","x","y","z","0","1","2","3","4","5","6","7","8","9","+","/" >>

B64Pad == "="

B64Char(n) == B64Alphabet[n + 1]

IsB64Char(c) == \E i \in 1..64 : B64Alphabet[i] = c

B64Index(c) == (CHOOSE i \in 1..64 : B64Alphabet[i] = c) - 1

\* base64::encode: three bytes give four symbols; one or two left-over bytes
\* give two or three symbols, padded with "=" to four.
RECURSIVE B64Encode(_)
B64Encode(b) ==
    IF Len(b) = 0 THEN <<>>
    ELSE IF Len(b) = 1 THEN
        << B64Char(b[1] \div 4), B64Char((b[1] % 4) * 16), B64Pad, B64Pad >>
    ELSE IF Len(b) = 2 THEN
        << B64Char(b[1] \div 4),
           B64Char((b[1] % 4) * 16 + b[2] \div 16),
           B64Char((b[2] % 16) * 4),
           B64Pad >>
    ELSE
        << B64Char(b[1] \div 4),
           B64Char((b[1] % 4) * 16 + b[2] \div 16),
           B64Char((b[2] % 16) * 4 + b[3] \div 64),
           B64Char(b[3] % 64) >>
        \o B64Encode(SubSeq(b, 4, Len(b)))

\* The number of trailing "=" of a string.
RECURSIVE TrailingPads(_)
TrailingPads(s) ==
    IF Len(s) > 0 /\ s[Len(s)] = B64Pad THEN 1 + TrailingPads(SubSeq(s, 1, Len(s) - 1)) ELSE 0

\* The bytes of a sequence of symbol indexes (no padding), whose length is
\* not 1 modulo 4.
RECURSIVE B64Bytes(_)
B64Bytes(d) ==
    IF Len(d) = 0 THEN <<>>
    ELSE IF Len(d) = 2 THEN << d[1] * 4 + d[2] \div 16 >>
    ELSE IF Len(d) = 3 THEN << d[1] * 4 + d[2] \div 16, (d[2] % 16) * 16 + d[3] \div 4 >>
    ELSE << d[1] * 4 + d[2] \div 16, (d[2] % 16) * 16 + d[3] \div 4, (d[3] % 4) * 64 + d[4] >>
         \o B64Bytes(SubSeq(d, 5, Len(d)))

\* Whether the bits of the last symbol that belong to no byte are zero.
B64TrailingBitsZero(d) ==
    CASE Len(d) % 4 = 2 -> d[Len(d)] % 16 = 0
      [] Len(d) % 4 = 3 -> d[Len(d)] % 4 = 0
      [] OTHER -> TRUE

\* base64::decode: every symbol is of the alphabet, padding only ends the
\* string and never exceeds what completes the last group of four, a lone
\* symbol is no group, and the unused bits of the last symbol are zero.
B64Decode(s) ==
    LET k == TrailingPads(s)
        n == Len(s) - k
        d == [i \in 1..n |-> s[i]]
    IN  IF \E i \in 1..n : ~IsB64Char(d[i]) THEN Err("InvalidByte")
        ELSE IF n % 4 = 1 THEN Err("InvalidLength")
        ELSE IF k > (4 - (n % 4)) % 4 THEN Err("InvalidByte")
        ELSE LET ix == [i \in 1..n |-> B64Index(d[i])]
             IN  IF ~B64TrailingBitsZero(ix) THEN Err("InvalidLastSymbol")
                 ELSE Ok(B64Bytes(ix))

\* json.rs: fn u64_to_string
u64_to_string(x) == B64Encode(ToLeBytes(x))

\* A string_to_u64 that takes the first 8 of the decoded bytes, and zeros for
\* the bytes that are missing.
string_to_u64_AnyLength(s) ==
    LET bytes == B64Decode(s)
    IN  IF ~bytes.ok THEN bytes
        ELSE Ok(FromLeBytes(SubSeq(bytes.v \o <<0, 0, 0, 0, 0, 0, 0, 0>>, 1, 8)))

\* json.rs: fn string_to_u64
string_to_u64(s) ==
    LET bytes == B64Decode(s)
    IN  IF ~bytes.ok THEN bytes
        ELSE IF Len(bytes.v) # 8 THEN Err("u64 must be 8 bytes")
        ELSE Ok(FromLeBytes(bytes.v))

----------------------------------------------------------------------------
(* serde_json::Value.                                                      *)

\* A tagged value <<tag, payload>>: its tag and its payload.
TagOf(x) == x[1]
Val(x) == x[2]

JNull == <<"Null", 0>>
JBool(b) == <<"Bool", b>>
\* A Number that holds an f64 (serde_json's N::Float), by its bits.
JFloat(w) == <<"Number", <<"Float", w>>>>
\* A Number that holds an integer (serde_json's N::PosInt / N::NegInt).
JInt(n) == <<"Number", <<"Int", n>>>>
JString(s) == <<"String", s>>
JArray(a) == <<"Array", a>>
JObject(f) == <<"Object", f>>

\* The object with the members of the sequence of <<key, value>> pairs; a
\* later pair replaces an earlier one of the same key.
RECURSIVE Members(_)
Members(pairs) ==
    IF pairs = <<>> THEN <<>>
    ELSE LET rest == Members(SubSeq(pairs, 1, Len(pairs) - 1))
             last == pairs[Len(pairs)]
         IN  [k \in (DOMAIN rest \ {last[1]}) \cup {last[1]} |->
                 IF k = last[1] THEN last[2] ELSE rest[k]]

\* json!({ ... })
JObj(pairs) == JObject(Members(pairs))

IsJString(j) == TagOf(j) = "String"
IsJArray(j) == TagOf(j) = "Array"
IsJObject(j) == TagOf(j) = "Object"

\* The functions that take each x of DOMAIN g to an element of the set g[x].
ChooseFn(g) ==
    IF DOMAIN g = {} THEN {<<>>}
    ELSE {f \in [DOMAIN g -> UNION Range(g)] : \A x \in DOMAIN g : f[x] \in g[x]}

----------------------------------------------------------------------------
(* IEEE-754 doubles, by their bits <<l0, l1, l2, l3>>: l3 holds the sign,   *)
(* the 11 exponent bits and the top 4 bits of the mantissa.                *)

F64Exponent(w) == (w[4] % 32768) \div 16
F64MantissaZero(w) == w[4] % 16 = 0 /\ w[3] = 0 /\ w[2] = 0 /\ w[1] = 0

\* f64::classify
classify(w) ==
    IF F64Exponent(w) = 2047 THEN (IF F64MantissaZero(w) THEN "Infinite" ELSE "Nan")
    ELSE IF F64Exponent(w) = 0 THEN (IF F64MantissaZero(w) THEN "Zero" ELSE "Subnormal")
    ELSE "Normal"

NegativeZero == <<0, 0, 0, 32768>>

\* mod.rs: fn is_negative_zero: n.total_cmp(&-0.0) is Equal exactly when n
\* has the bits of -0.0.
is_negative_zero(n) == n = NegativeZero

\* floor(log2(n)) for n >= 1.
RECURSIVE Log2(_)
Log2(n) == IF n < 2 THEN 0 ELSE 1 + Log2(n \div 2)

RECURSIVE Pow2(_)
Pow2(e) == IF e = 0 THEN 1 ELSE 2 * Pow2(e - 1)

\* `n as f64` for an integer of magnitude below 2^20 (exact).
IntToF64(n) ==
    IF n = 0 THEN <<0, 0, 0, 0>>
    ELSE LET m == IF n < 0 THEN -n ELSE n
             e == Log2(m)
             frac20 == (m - Pow2(e)) * Pow2(20 - e)
         IN  << 0, 0, frac20 % 65536,
                (IF n < 0 THEN 32768 ELSE 0) + (1023 + e) * 16 + frac20 \div 65536 >>

\* serde_json::Number::as_f64: Some for every number (no arbitrary precision).
as_f64(num) == IF num[1] = "Float" THEN num[2] ELSE IntToF64(num[2])

\* json!(n) for an f64: serde_json has no number for NaN and the infinities
\* and gives null for them.
JsonFromF64(n) == IF classify(n) \in {"Infinite", "Nan"} THEN JNull ELSE JFloat(n)

----------------------------------------------------------------------------
(* The scalar codecs of value/json (float.rs, integer.rs, bytes.rs).        *)

JsonFloatEncode(n) == B64Encode(ToLeBytes(n))

JsonFloatDecode(s) ==
    LET bytes == B64Decode(s)
    IN  IF ~bytes.ok THEN Err("MalformedEncoding")
        ELSE IF Len(bytes.v) # 8 THEN Err("MalformedEncoding")
        ELSE Ok(FromLeBytes(bytes.v))

JsonIntegerEncode(n) == B64Encode(ToLeBytes(n))

JsonIntegerDecode(s) ==
    LET bytes == B64Decode(s)
    IN  IF ~bytes.ok THEN Err("MalformedEncoding")
        ELSE IF Len(bytes.v) # 8 THEN Err("MalformedEncoding")
        ELSE Ok(FromLeBytes(bytes.v))

JsonBytesEncode(b) == B64Encode(b)

JsonBytesDecode(s) ==
    LET bytes == B64Decode(s)
    IN  IF ~bytes.ok THEN Err("MalformedEncoding") ELSE bytes

----------------------------------------------------------------------------
(* convex::Value, a pair <<tag, payload>>.  A Set's payload is a set of     *)
(* Values and a Map's a function from Values (equality is structural, on   *)
(* the bits of a Float64); an Object's is a function from field names.     *)

VId(s) == <<"Id", s>>
VNull == <<"Null", 0>>
VInt64(n) == <<"Int64", n>>
VFloat64(n) == <<"Float64", n>>
VBoolean(b) == <<"Boolean", b>>
VString(s) == <<"String", s>>
VBytes(b) == <<"Bytes", b>>
VArray(a) == <<"Array", a>>
VSet(s) == <<"Set", s>>
VMap(m) == <<"Map", m>>
VObject(o) == <<"Object", o>>

K_id == <<"$", "i", "d">>
K_bytes == <<"$", "b", "y", "t", "e", "s">>
K_integer == <<"$", "i", "n", "t", "e", "g", "e", "r">>
K_float == <<"$", "f", "l", "o", "a", "t">>
K_set == <<"$", "s", "e", "t">>
K_map == <<"$", "m", "a", "p">>

ReservedTags == {K_id, K_bytes, K_integer, K_float, K_set, K_map}

\* The Float64 arm with FpCategory::Nan among the categories that are not
\* special.
Float64IsSpecial_NanAsNumber(n) == is_negative_zero(n) \/ classify(n) = "Infinite"

\* The Float64 arm without the test for negative zero.
Float64IsSpecial_NoNegativeZero(n) == classify(n) \in {"Infinite", "Nan"}

\* From<Value> for JsonValue, the Float64 arm.
Float64IsSpecial(n) == is_negative_zero(n) \/ classify(n) \in {"Infinite", "Nan"}

Float64ToJson(n) ==
    IF Float64IsSpecial(n) THEN JObj(<< <<K_float, JString(JsonFloatEncode(n))>> >>)
    ELSE JsonFromF64(n)

\* From<Value> for JsonValue.  The result is the set of the JSON values the
\* encoder may produce: the elements of a Set and the entries of a Map are
\* emitted in the order of Value's Ord, which this model leaves open.
RECURSIVE ValueToJson(_)
ValueToJson(value) ==
    CASE TagOf(value) = "Id" -> { JObj(<< <<K_id, JString(Val(value))>> >>) }
      [] TagOf(value) = "Null" -> { JNull }
      [] TagOf(value) = "Int64" ->
            { JObj(<< <<K_integer, JString(JsonIntegerEncode(Val(value)))>> >>) }
      [] TagOf(value) = "Float64" -> { Float64ToJson(Val(value)) }
      [] TagOf(value) = "Boolean" -> { JBool(Val(value)) }
      [] TagOf(value) = "String" -> { JString(Val(value)) }
      [] TagOf(value) = "Bytes" ->
            { JObj(<< <<K_bytes, JString(JsonBytesEncode(Val(value)))>> >>) }
      [] TagOf(value) = "Array" ->
            { JArray(a) : a \in ChooseEach([i \in DOMAIN Val(value) |-> ValueToJson(Val(value)[i])]) }
      [] TagOf(value) = "Set" ->
            { JObj(<< <<K_set, JArray(items)>> >>) :
                items \in UNION { ChooseEach([i \in DOMAIN p |-> ValueToJson(p[i])]) :
                                    p \in Perms(Val(value)) } }
      [] TagOf(value) = "Map" ->
            { JObj(<< <<K_map, JArray(items)>> >>) :
                items \in UNION { ChooseEach([i \in DOMAIN p |->
                                        { JArray(<<k, v>>) :
                                            k \in ValueToJson(p[i]),
                                            v \in ValueToJson(Val(value)[p[i]]) }]) :
                                    p \in Perms(DOMAIN Val(value)) } }
      [] TagOf(value) = "Object" ->
            { JObject(o) : o \in ChooseFn([k \in DOMAIN Val(value) |-> ValueToJson(Val(value)[k])]) }

\* serde_json::from_value::<String>
FromValueString(j) == IF IsJString(j) THEN Ok(Val(j)) ELSE Err("invalid type: expected a string")

\* serde_json::from_value::<Vec<[JsonValue; 2]>>
FromValuePairs(j) ==
    IF IsJArray(j) /\ \A i \in DOMAIN Val(j) : IsJArray(Val(j)[i]) /\ Len(Val(Val(j)[i])) = 2
    THEN Ok([i \in DOMAIN Val(j) |-> Val(Val(j)[i])])
    ELSE Err("invalid type: expected an array of pairs")

RECURSIVE JsonToValue(_), DecodeArrayItems(_, _), DecodeSetItems(_, _),
          DecodeMapEntries(_, _), DecodeFields(_, _, _)

\* TryFrom<JsonValue> for Value, the "$float" arm.
DecodeFloatTag(value) ==
    LET i == FromValueString(value)
    IN  IF ~i.ok THEN i
        ELSE LET n == JsonFloatDecode(i.v)
             IN  IF ~n.ok THEN n
                 ELSE IF ~is_negative_zero(n.v) /\ classify(n.v) \in {"Normal", "Subnormal"}
                      THEN Err("Float64 should be encoded as a number")
                      ELSE Ok(VFloat64(n.v))

\* The `_` arm rejecting a key that begins with "$".
DecodeUnknownTag_RejectDollar(key, value) ==
    IF Len(key) > 0 /\ key[1] = "$" THEN Err("unknown tag")
    ELSE LET r == JsonToValue(value)
         IN  IF ~r.ok THEN r ELSE Ok(VObject(Members(<< <<key, r.v>> >>)))

\* TryFrom<JsonValue> for Value, the `_` arm of the one-key object: any other
\* key names the one field of an Object.
DecodeUnknownTag(key, value) ==
    LET r == JsonToValue(value)
    IN  IF ~r.ok THEN r ELSE Ok(VObject(Members(<< <<key, r.v>> >>)))

\* The one-key object with a "$set" arm that takes a value that is no array
\* as the field of an Object.
DecodeTagged_SetFallsThrough(key, value) ==
    CASE key = K_id ->
            LET s == FromValueString(value)
            IN  IF ~s.ok THEN s ELSE Ok(VId(s.v))
      [] key = K_bytes ->
            LET i == FromValueString(value)
            IN  IF ~i.ok THEN i
                ELSE LET b == JsonBytesDecode(i.v)
                     IN  IF ~b.ok THEN b ELSE Ok(VBytes(b.v))
      [] key = K_integer ->
            LET i == FromValueString(value)
            IN  IF ~i.ok THEN i
                ELSE LET n == JsonIntegerDecode(i.v)
                     IN  IF ~n.ok THEN n ELSE Ok(VInt64(n.v))
      [] key = K_float -> DecodeFloatTag(value)
      [] key = K_set ->
            IF ~IsJArray(value) THEN DecodeUnknownTag(key, value)
            ELSE DecodeSetItems(Val(value), {})
      [] key = K_map ->
            LET entries == FromValuePairs(value)
            IN  IF ~entries.ok THEN entries ELSE DecodeMapEntries(entries.v, <<>>)
      [] OTHER -> DecodeUnknownTag(key, value)

\* TryFrom<JsonValue> for Value, the one-key object.
DecodeTagged(key, value) ==
    CASE key = K_id ->
            LET s == FromValueString(value)
            IN  IF ~s.ok THEN s ELSE Ok(VId(s.v))
      [] key = K_bytes ->
            LET i == FromValueString(value)
            IN  IF ~i.ok THEN i
                ELSE LET b == JsonBytesDecode(i.v)
                     IN  IF ~b.ok THEN b ELSE Ok(VBytes(b.v))
      [] key = K_integer ->
            LET i == FromValueString(value)
            IN  IF ~i.ok THEN i
                ELSE LET n == JsonIntegerDecode(i.v)
                     IN  IF ~n.ok THEN n ELSE Ok(VInt64(n.v))
      [] key = K_float -> DecodeFloatTag(value)
      [] key = K_set ->
            IF ~IsJArray(value) THEN Err("$set must have an array value")
            ELSE DecodeSetItems(Val(value), {})
      [] key = K_map ->
            LET entries == FromValuePairs(value)
            IN  IF ~entries.ok THEN entries ELSE DecodeMapEntries(entries.v, <<>>)
      [] OTHER -> DecodeUnknownTag(key, value)

\* TryFrom<JsonValue> for Value.
JsonToValue(value) ==
    CASE TagOf(value) = "Null" -> Ok(VNull)
      [] TagOf(value) = "Bool" -> Ok(VBoolean(Val(value)))
      [] TagOf(value) = "Number" -> Ok(VFloat64(as_f64(Val(value))))
      [] TagOf(value) = "String" -> Ok(VString(Val(value)))
      [] TagOf(value) = "Array" -> DecodeArrayItems(Val(value), <<>>)
      [] TagOf(value) = "Object" ->
            IF Cardinality(DOMAIN Val(value)) = 1
            THEN LET key == CHOOSE k \in DOMAIN Val(value) : TRUE
                 IN  DecodeTagged(key, Val(value)[key])
            ELSE DecodeFields(Val(value), DOMAIN Val(value), <<>>)

\* The loop of the Array arm: the first element that fails ends the decode.
DecodeArrayItems(arr, out) ==
    IF arr = <<>> THEN Ok(VArray(out))
    ELSE LET r == JsonToValue(Head(arr))
         IN  IF ~r.ok THEN r ELSE DecodeArrayItems(Tail(arr), Append(out, r.v))

\* The loop of the "$set" arm with BTreeSet::insert, which drops a repeated
\* element silently.
RECURSIVE DecodeSetItems_Insert(_, _)
DecodeSetItems_Insert(items, set) ==
    IF items = <<>> THEN Ok(VSet(set))
    ELSE LET r == JsonToValue(Head(items))
         IN  IF ~r.ok THEN r ELSE DecodeSetItems_Insert(Tail(items), set \cup {r.v})

\* The loop of the "$set" arm: BTreeSet::replace returns the old element
\* when the set holds an equal one.
DecodeSetItems(items, set) ==
    IF items = <<>> THEN Ok(VSet(set))
    ELSE LET r == JsonToValue(Head(items))
         IN  IF ~r.ok THEN r
             ELSE IF r.v \in set THEN Err("Duplicate value in set")
             ELSE DecodeSetItems(Tail(items), set \cup {r.v})

\* The loop of the "$map" arm with BTreeMap::insert, which keeps the last
\* entry of a repeated key.
RECURSIVE DecodeMapEntries_KeepLast(_, _)
DecodeMapEntries_KeepLast(entries, out) ==
    IF entries = <<>> THEN Ok(VMap(out))
    ELSE LET k == JsonToValue(Head(entries)[1])
             v == JsonToValue(Head(entries)[2])
         IN  IF ~k.ok THEN k
             ELSE IF ~v.ok THEN v
             ELSE DecodeMapEntries_KeepLast(Tail(entries),
                                            [x \in DOMAIN out \cup {k.v} |->
                                                IF x = k.v THEN v.v ELSE out[x]])

\* The loop of the "$map" arm.
DecodeMapEntries(entries, out) ==
    IF entries = <<>> THEN Ok(VMap(out))
    ELSE LET k == JsonToValue(Head(entries)[1])
         IN  IF ~k.ok THEN k
             ELSE IF k.v \in DOMAIN out THEN Err("Duplicate key in map")
             ELSE LET v == JsonToValue(Head(entries)[2])
                  IN  IF ~v.ok THEN v
                      ELSE DecodeMapEntries(Tail(entries),
                                            [x \in DOMAIN out \cup {k.v} |->
                                                IF x = k.v THEN v.v ELSE out[x]])

\* The loop of the many-key Object arm, over the keys still to decode.
DecodeFields(map, keys, fields) ==
    IF keys = {} THEN Ok(VObject(fields))
    ELSE LET key == CHOOSE k \in keys : TRUE
             r == JsonToValue(map[key])
         IN  IF ~r.ok THEN r
             ELSE DecodeFields(map, keys \ {key},
                               [x \in DOMAIN fields \cup {key} |->
                                   IF x = key THEN r.v ELSE fields[x]])

----------------------------------------------------------------------------
(* serde: the derived Serialize / Deserialize of the *Json structs, from and *)
(* to a JSON object.  A Rust field name is renamed by rename_all =          *)
(* "camelCase"; a key the struct does not name is ignored.                 *)

ToUpper(c) ==
    IF \E i \in 27..52 : B64Alphabet[i] = c THEN B64Alphabet[B64Index(c) + 1 - 26] ELSE c

\* #[serde(rename_all = "camelCase")] on a snake_case field name.
RECURSIVE CamelCase(_)
CamelCase(name) ==
    IF name = <<>> THEN <<>>
    ELSE IF Head(name) = "_" /\ Len(name) >= 2
         THEN <<ToUpper(name[2])>> \o CamelCase(SubSeq(name, 3, Len(name)))
         ELSE <<Head(name)>> \o CamelCase(Tail(name))

HasKey(j, k) == k \in DOMAIN Val(j)

\* A required String field.
ReqString(j, k) ==
    IF ~HasKey(j, k) THEN Err("missing field")
    ELSE IF IsJString(Val(j)[k]) THEN Ok(Val(Val(j)[k]))
    ELSE Err("invalid type")

\* Whether a JSON value deserializes as a u32 (the model holds no number
\* above u32::MAX).
IsJU32(x) == TagOf(x) = "Number" /\ Val(x)[1] = "Int" /\ Val(x)[2] >= 0

\* A required u32 field.
ReqU32(j, k) ==
    IF ~HasKey(j, k) THEN Err("missing field")
    ELSE IF IsJU32(Val(j)[k]) THEN Ok(Val(Val(j)[k])[2])
    ELSE Err("invalid type")

\* A required bool field.
ReqBool(j, k) ==
    IF ~HasKey(j, k) THEN Err("missing field")
    ELSE IF TagOf(Val(j)[k]) = "Bool" THEN Ok(Val(Val(j)[k]))
    ELSE Err("invalid type")

\* A required JsonValue field.
ReqJson(j, k) == IF ~HasKey(j, k) THEN Err("missing field") ELSE Ok(Val(j)[k])

\* An Option<String> field: absent or null is None.
OptString(j, k) ==
    IF ~HasKey(j, k) \/ Val(j)[k] = JNull THEN Ok(None)
    ELSE IF IsJString(Val(j)[k]) THEN Ok(Some(Val(Val(j)[k])))
    ELSE Err("invalid type")

\* An Option<bool> field.
OptBool(j, k) ==
    IF ~HasKey(j, k) \/ Val(j)[k] = JNull THEN Ok(None)
    ELSE IF TagOf(Val(j)[k]) = "Bool" THEN Ok(Some(Val(Val(j)[k])))
    ELSE Err("invalid type")

\* An Option<u32> field.
OptU32(j, k) ==
    IF ~HasKey(j, k) \/ Val(j)[k] = JNull THEN Ok(None)
    ELSE IF IsJU32(Val(j)[k]) THEN Ok(Some(Val(Val(j)[k])[2]))
    ELSE Err("invalid type")

\* An Option<JsonValue> field.
OptJson(j, k) ==
    IF ~HasKey(j, k) \/ Val(j)[k] = JNull THEN Ok(None) ELSE Ok(Some(Val(j)[k]))

\* serde_json::from_value::<Vec<JsonValue>>
FromValueVec(j) == IF IsJArray(j) THEN Ok(Val(j)) ELSE Err("invalid type")

\* A required Vec<JsonValue> field.
ReqVec(j, k) == IF ~HasKey(j, k) THEN Err("missing field") ELSE FromValueVec(Val(j)[k])

\* A required Vec<String> field.
ReqVecString(j, k) ==
    IF ~HasKey(j, k) THEN Err("missing field")
    ELSE IF IsJArray(Val(j)[k]) /\ \A i \in DOMAIN Val(Val(j)[k]) : IsJString(Val(Val(j)[k])[i])
         THEN Ok([i \in DOMAIN Val(Val(j)[k]) |-> Val(Val(Val(j)[k])[i])])
         ELSE Err("invalid type")

\* Option<String> and Option<u32> as JSON: None is null.
JOptString(o) == IF o.some THEN JString(o.x) ELSE JNull
JOptU32(o) == IF o.some THEN JInt(o.x) ELSE JNull
JStrings(ss) == JArray([i \in DOMAIN ss |-> JString(ss[i])])

\* The first error of a record of results, if one is an error.
AnyErr(rs) == \E f \in DOMAIN rs : ~rs[f].ok
FirstErr(rs) == rs[CHOOSE f \in DOMAIN rs : ~rs[f].ok]

----------------------------------------------------------------------------
(* UserIdentityAttributes (types.rs) and its codec (json.rs).              *)

F_token_identifier == <<"t", "o", "k", "e", "n", "_", "i", "d", "e", "n", "t", "i", "f", "i", "e", "r">>
F_issuer == <<"i", "s", "s", "u", "e", "r">>
F_subject == <<"s", "u", "b", "j", "e", "c", "t">>

\* The Option<String> fields of UserIdentityAttributes, in declaration order.
UIAStringFields ==
    << F_issuer, F_subject, <<"n", "a", "m", "e">>, <<"g", "i", "v", "e", "n", "_", "n", "a", "m", "e">>, <<"f", "a", "m", "i", "l", "y", "_", "n", "a", "m", "e">>, <<"n", "i", "c", "k", "n", "a", "m", "e">>,
       <<"p", "r", "e", "f", "e", "r", "r", "e", "d", "_", "u", "s", "e", "r", "n", "a", "m", "e">>, <<"p", "r", "o", "f", "i", "l", "e", "_", "u", "r", "l">>, <<"p", "i", "c", "t", "u", "r", "e", "_", "u", "r", "l">>, <<"w", "e", "b", "s", "i", "t", "e", "_", "u", "r", "l">>,
       <<"e", "m", "a", "i", "l">>, <<"g", "e", "n", "d", "e", "r">>, <<"b", "i", "r", "t", "h", "d", "a", "y">>, <<"t", "i", "m", "e", "z", "o", "n", "e">>, <<"l", "a", "n", "g", "u", "a", "g", "e">>,
       <<"p", "h", "o", "n", "e", "_", "n", "u", "m", "b", "e", "r">>, <<"a", "d", "d", "r", "e", "s", "s">>, <<"u", "p", "d", "a", "t", "e", "d", "_", "a", "t">> >>

\* The Option<bool> fields.
UIABoolFields == << <<"e", "m", "a", "i", "l", "_", "v", "e", "r", "i", "f", "i", "e", "d">>, <<"p", "h", "o", "n", "e", "_", "n", "u", "m", "b", "e", "r", "_", "v", "e", "r", "i", "f", "i", "e", "d">> >>

UIAFields == Range(UIAStringFields) \cup Range(UIABoolFields)

\* The JSON key of each field of UserIdentityAttributesJson.
UIAWireKey == [f \in UIAFields \cup {F_token_identifier} |-> CamelCase(f)]

\* A construct without the separator.
UserIdentifierConstruct_NoSeparator(issuer_name, subject) == issuer_name \o subject

\* types.rs: UserIdentifier::construct
UserIdentifierConstruct(issuer_name, subject) == issuer_name \o <<"|">> \o subject

\* A UserIdentityAttributes: its token_identifier and its optional fields.
UIA(token_identifier, attrs) == [token_identifier |-> token_identifier, attrs |-> attrs]

\* A serializer without skip_serializing_if: a None field is written as null.
SerializeUIAJson_NullForNone(raw) ==
    JObject([k \in {UIAWireKey[f] : f \in UIAFields \cup {F_token_identifier}} |->
        IF k = UIAWireKey[F_token_identifier] THEN JOptString(raw.token_identifier)
        ELSE LET f == CHOOSE g \in UIAFields : UIAWireKey[g] = k
             IN  IF ~raw.attrs[f].some THEN JNull
                 ELSE IF f \in Range(UIABoolFields) THEN JBool(raw.attrs[f].x)
                 ELSE JString(raw.attrs[f].x)])

\* Serialize for UserIdentityAttributesJson: tokenIdentifier is always
\* written, every other field only when it is Some.
SerializeUIAJson(raw) ==
    JObject([k \in {UIAWireKey[F_token_identifier]}
                   \cup {UIAWireKey[f] : f \in {g \in UIAFields : raw.attrs[g].some}} |->
        IF k = UIAWireKey[F_token_identifier] THEN JOptString(raw.token_identifier)
        ELSE LET f == CHOOSE g \in UIAFields : UIAWireKey[g] = k
             IN  IF f \in Range(UIABoolFields) THEN JBool(raw.attrs[f].x)
                 ELSE JString(raw.attrs[f].x)])

\* TryFrom<UserIdentityAttributes> for JsonValue
UIAToJson(value) ==
    SerializeUIAJson([token_identifier |-> Some(value.token_identifier), attrs |-> value.attrs])

\* Deserialize for UserIdentityAttributesJson, from a JSON object.
DeserializeUIAJson(j) ==
    IF ~IsJObject(j) THEN Err("invalid type")
    ELSE LET t == OptString(j, UIAWireKey[F_token_identifier])
             a == [f \in UIAFields |->
                     IF f \in Range(UIABoolFields) THEN OptBool(j, UIAWireKey[f])
                     ELSE OptString(j, UIAWireKey[f])]
         IN  IF ~t.ok THEN t
             ELSE IF AnyErr(a) THEN FirstErr(a)
             ELSE Ok([token_identifier |-> t.v, attrs |-> [f \in UIAFields |-> a[f].v]])

\* A decoder that derives the identifier from whichever of issuer and subject
\* is set, taking the other as empty.
JsonToUIA_LenientDerivation(value) ==
    LET raw == DeserializeUIAJson(value)
        part(f) == IF raw.v.attrs[f].some THEN raw.v.attrs[f].x ELSE <<>>
    IN  IF ~raw.ok THEN raw
        ELSE IF raw.v.token_identifier.some
             THEN Ok(UIA(raw.v.token_identifier.x, raw.v.attrs))
        ELSE IF raw.v.attrs[F_issuer].some \/ raw.v.attrs[F_subject].some
             THEN Ok(UIA(UserIdentifierConstruct(part(F_issuer), part(F_subject)), raw.v.attrs))
        ELSE Err("Either tokenIdentifier or issuer and subject must be set")

\* A decoder that derives the identifier whenever issuer and subject are set.
JsonToUIA_PreferDerived(value) ==
    LET raw == DeserializeUIAJson(value)
    IN  IF ~raw.ok THEN raw
        ELSE IF raw.v.attrs[F_issuer].some /\ raw.v.attrs[F_subject].some
             THEN Ok(UIA(UserIdentifierConstruct(raw.v.attrs[F_issuer].x, raw.v.attrs[F_subject].x),
                         raw.v.attrs))
        ELSE IF raw.v.token_identifier.some
             THEN Ok(UIA(raw.v.token_identifier.x, raw.v.attrs))
        ELSE Err("Either tokenIdentifier or issuer and subject must be set")

\* TryFrom<JsonValue> for UserIdentityAttributes
JsonToUIA(value) ==
    LET raw == DeserializeUIAJson(value)
    IN  IF ~raw.ok THEN raw
        ELSE IF raw.v.token_identifier.some
             THEN Ok(UIA(raw.v.token_identifier.x, raw.v.attrs))
        ELSE IF raw.v.attrs[F_issuer].some /\ raw.v.attrs[F_subject].some
             THEN Ok(UIA(UserIdentifierConstruct(raw.v.attrs[F_issuer].x, raw.v.attrs[F_subject].x),
                         raw.v.attrs))
        ELSE Err("Either tokenIdentifier or issuer and subject must be set")

----------------------------------------------------------------------------
(* Types the codecs use from outside json.rs: SessionId (a uuid::Uuid, 32   *)
(* hexadecimal digits), UdfPath and Timestamp.                             *)

HexLower == <<"0", "1", "2", "3", "4", "5", "6", "7", "8", "9", "a", "b", "c", "d", "e", "f">>

\* The value of a hexadecimal digit of either case, -1 for another character.
HexValue(c) ==
    IF \E i \in 1..16 : HexLower[i] = c THEN (CHOOSE i \in 1..16 : HexLower[i] = c) - 1
    ELSE IF \E i \in 11..16 : ToUpper(HexLower[i]) = c
         THEN (CHOOSE i \in 11..16 : ToUpper(HexLower[i]) = c) - 1
         ELSE -1

\* format!("{}", session_id.as_hyphenated()): lower case, groups 8-4-4-4-12.
UuidHyphenated(u) ==
    LET hex == [i \in 1..32 |-> HexLower[u[i] + 1]]
    IN  SubSeq(hex, 1, 8) \o <<"-">> \o SubSeq(hex, 9, 12) \o <<"-">> \o SubSeq(hex, 13, 16)
            \o <<"-">> \o SubSeq(hex, 17, 20) \o <<"-">> \o SubSeq(hex, 21, 32)

UuidParseSimple(s) ==
    IF Len(s) = 32 /\ \A i \in 1..32 : HexValue(s[i]) >= 0
    THEN Ok([i \in 1..32 |-> HexValue(s[i])])
    ELSE Err("InvalidSessionId")

UuidParseHyphenated(s) ==
    IF Len(s) = 36 /\ \A i \in {9, 14, 19, 24} : s[i] = "-"
    THEN UuidParseSimple(SubSeq(s, 1, 8) \o SubSeq(s, 10, 13) \o SubSeq(s, 15, 18)
                            \o SubSeq(s, 20, 23) \o SubSeq(s, 25, 36))
    ELSE Err("InvalidSessionId")

\* A parser that takes the hyphenated form only.
SessionIdParse_HyphenatedOnly(s) == UuidParseHyphenated(s)

\* session_id.parse(): SessionId derives FromStr from Uuid, whose parser takes
\* the simple, hyphenated, braced and URN forms.
SessionIdParse(s) ==
    IF Len(s) = 32 THEN UuidParseSimple(s)
    ELSE IF Len(s) = 38 /\ s[1] = "{" /\ s[38] = "}" THEN UuidParseHyphenated(SubSeq(s, 2, 37))
    ELSE IF Len(s) = 45 /\ SubSeq(s, 1, 9) = <<"u", "r", "n", ":", "u", "u", "i", "d", ":">> THEN UuidParseHyphenated(SubSeq(s, 10, 45))
    ELSE UuidParseHyphenated(s)

\* udf_path.parse(): an opaque string; the malformed one of the model is the
\* empty path.
UdfPathParse(s) == IF s = <<>> THEN Err("MalformedUdfPath") ELSE Ok(s)

\* String::from(udf_path)
UdfPathToString(p) == p

\* Timestamp::MIN
TimestampMin == <<0, 0, 0, 0>>

\* x < y on 64-bit words.
U64Less(x, y) ==
    \E i \in 1..4 : x[i] < y[i] /\ \A k \in (i + 1)..4 : x[k] = y[k]

\* Timestamp::try_from(u64)
TimestampTryFrom(x) == IF U64Less(x, TimestampMin) THEN Err("InvalidTimestamp") ELSE Ok(x)

----------------------------------------------------------------------------
(* ClientMessage (types.rs) and its codec (json.rs).  A message is a pair   *)
(* <<variant, fields>>.                                                    *)

K_type == <<"t", "y", "p", "e">>
K_tokenType == <<"t", "o", "k", "e", "n", "T", "y", "p", "e">>
K_value == <<"v", "a", "l", "u", "e">>

\* The tag entry of an internally tagged enum.
TypeTag(name) == <<K_type, JString(name)>>

\* The variant name of an internally tagged enum, by its tag key.
VariantOf(j, tagKey) ==
    IF ~IsJObject(j) THEN Err("invalid type")
    ELSE IF ~HasKey(j, tagKey) THEN Err("missing tag")
    ELSE IF ~IsJString(Val(j)[tagKey]) THEN Err("invalid tag")
    ELSE Ok(Val(Val(j)[tagKey]))

\* A collect that keeps the values of the entries that decode.
Collect_SkipErrors(rs) ==
    LET RECURSIVE kept(_)
        kept(i) == IF i > Len(rs) THEN <<>>
                   ELSE IF rs[i].ok THEN <<rs[i].v>> \o kept(i + 1)
                   ELSE kept(i + 1)
    IN  Ok(kept(1))

\* The first error of a sequence of results, or the sequence of their values.
Collect(rs) ==
    IF \E i \in DOMAIN rs : ~rs[i].ok
    THEN rs[CHOOSE i \in DOMAIN rs : ~rs[i].ok /\ \A k \in 1..(i - 1) : rs[k].ok]
    ELSE Ok([i \in DOMAIN rs |-> rs[i].v])

Query(query_id, udf_path, args, journal) ==
    [query_id |-> query_id, udf_path |-> udf_path, args |-> args, journal |-> journal]

\* An encoder without skip_serializing_if: an unspecified journal is written
\* as null.
QuerySetModificationToJson_NullForUnspecified(m) ==
    IF TagOf(m) = "Add"
    THEN LET q == Val(m)
         IN  Ok(JObj(<< TypeTag(<<"A", "d", "d">>),
                        <<CamelCase(<<"q", "u", "e", "r", "y", "_", "i", "d">>), JInt(q.query_id)>>,
                        <<CamelCase(<<"u", "d", "f", "_", "p", "a", "t", "h">>), JString(UdfPathToString(q.udf_path))>>,
                        <<CamelCase(<<"a", "r", "g", "s">>), JArray(q.args)>>,
                        <<CamelCase(<<"j", "o", "u", "r", "n", "a", "l">>),
                          IF q.journal.some THEN JOptString(q.journal.x) ELSE JNull>> >>))
    ELSE Ok(JObj(<< TypeTag(<<"R", "e", "m", "o", "v", "e">>), <<CamelCase(<<"q", "u", "e", "r", "y", "_", "i", "d">>), JInt(Val(m).query_id)>> >>))

\* TryFrom<QuerySetModification> for JsonValue
QuerySetModificationToJson(m) ==
    IF TagOf(m) = "Add"
    THEN LET q == Val(m)
         IN  Ok(JObj(<< TypeTag(<<"A", "d", "d">>),
                        <<CamelCase(<<"q", "u", "e", "r", "y", "_", "i", "d">>), JInt(q.query_id)>>,
                        <<CamelCase(<<"u", "d", "f", "_", "p", "a", "t", "h">>), JString(UdfPathToString(q.udf_path))>>,
                        <<CamelCase(<<"a", "r", "g", "s">>), JArray(q.args)>> >>
                     \o IF q.journal.some
                        THEN << <<CamelCase(<<"j", "o", "u", "r", "n", "a", "l">>), JOptString(q.journal.x)>> >>
                        ELSE <<>>))
    ELSE Ok(JObj(<< TypeTag(<<"R", "e", "m", "o", "v", "e">>), <<CamelCase(<<"q", "u", "e", "r", "y", "_", "i", "d">>), JInt(Val(m).query_id)>> >>))

\* A QueryJson whose journal is a plain Option: null is the absent journal.
DeserializeQueryJson_FlatJournal(j) ==
    LET r == [ query_id |->
                 IF ~HasKey(j, CamelCase(<<"q", "u", "e", "r", "y", "_", "i", "d">>)) THEN Ok(0)
                 ELSE ReqU32(j, CamelCase(<<"q", "u", "e", "r", "y", "_", "i", "d">>)),
               udf_path |->
                 IF ~HasKey(j, CamelCase(<<"u", "d", "f", "_", "p", "a", "t", "h">>)) THEN Ok(<<>>)
                 ELSE ReqString(j, CamelCase(<<"u", "d", "f", "_", "p", "a", "t", "h">>)),
               args |->
                 IF ~HasKey(j, CamelCase(<<"a", "r", "g", "s">>)) THEN Ok(JNull)
                 ELSE ReqJson(j, CamelCase(<<"a", "r", "g", "s">>)),
               journal |->
                 LET o == OptString(j, CamelCase(<<"j", "o", "u", "r", "n", "a", "l">>))
                 IN  IF ~o.ok THEN o ELSE IF o.v.some THEN Ok(Some(o.v)) ELSE Ok(None) ]
    IN  IF AnyErr(r) THEN FirstErr(r)
        ELSE Ok([f \in DOMAIN r |-> r[f].v])

\* Deserialize for QueryJson: #[serde(default)] fills every absent field, and
\* double_option makes a present journal Some, of None when it is null.
DeserializeQueryJson(j) ==
    LET r == [ query_id |->
                 IF ~HasKey(j, CamelCase(<<"q", "u", "e", "r", "y", "_", "i", "d">>)) THEN Ok(0)
                 ELSE ReqU32(j, CamelCase(<<"q", "u", "e", "r", "y", "_", "i", "d">>)),
               udf_path |->
                 IF ~HasKey(j, CamelCase(<<"u", "d", "f", "_", "p", "a", "t", "h">>)) THEN Ok(<<>>)
                 ELSE ReqString(j, CamelCase(<<"u", "d", "f", "_", "p", "a", "t", "h">>)),
               args |->
                 IF ~HasKey(j, CamelCase(<<"a", "r", "g", "s">>)) THEN Ok(JNull)
                 ELSE ReqJson(j, CamelCase(<<"a", "r", "g", "s">>)),
               journal |->
                 IF ~HasKey(j, CamelCase(<<"j", "o", "u", "r", "n", "a", "l">>)) THEN Ok(None)
                 ELSE LET o == OptString(j, CamelCase(<<"j", "o", "u", "r", "n", "a", "l">>))
                      IN  IF o.ok THEN Ok(Some(o.v)) ELSE o ]
    IN  IF AnyErr(r) THEN FirstErr(r)
        ELSE Ok([f \in DOMAIN r |-> r[f].v])

\* TryFrom<JsonValue> for QuerySetModification
JsonToQuerySetModification(value) ==
    LET variant == VariantOf(value, K_type)
    IN  IF ~variant.ok THEN variant
        ELSE IF variant.v = <<"A", "d", "d">>
        THEN LET q == DeserializeQueryJson(value)
                 args == FromValueVec(q.v.args)
                 udf_path == UdfPathParse(q.v.udf_path)
             IN  IF ~q.ok THEN q
                 ELSE IF ~args.ok THEN args
                 ELSE IF ~udf_path.ok THEN udf_path
                 ELSE Ok(<<"Add", Query(q.v.query_id, udf_path.v, args.v, q.v.journal)>>)
        ELSE IF variant.v = <<"R", "e", "m", "o", "v", "e">>
        THEN LET query_id == ReqU32(value, CamelCase(<<"q", "u", "e", "r", "y", "_", "i", "d">>))
             IN  IF ~query_id.ok THEN query_id
                 ELSE Ok(<<"Remove", [query_id |-> query_id.v]>>)
        ELSE Err("unknown variant")

\* Serialize for AuthenticationTokenJson, flattened into Authenticate: the
\* enum has no rename_all, so acting_as is written under its Rust name.
AuthenticationTokenToJson(token) ==
    IF TagOf(token) = "Admin"
    THEN LET acting_as == IF Val(token).acting_as.some
                          THEN UIAToJson(Val(token).acting_as.x)
                          ELSE JNull
         IN  << <<K_tokenType, JString(<<"A", "d", "m", "i", "n">>)>>, <<K_value, JString(Val(token).value)>> >>
             \o IF Val(token).acting_as.some THEN << <<<<"a", "c", "t", "i", "n", "g", "_", "a", "s">>, acting_as>> >> ELSE <<>>
    ELSE IF TagOf(token) = "User"
    THEN << <<K_tokenType, JString(<<"U", "s", "e", "r">>)>>, <<K_value, JString(Val(token))>> >>
    ELSE << <<K_tokenType, JString(<<"N", "o", "n", "e">>)>> >>

\* An encoder that leaves the legacy id of a Mutation unset: mutation_id: None.
ClientToJson_NoMutationId(m) ==
    LET f == Val(m)
    IN  CASE TagOf(m) = "Connect" ->
               Ok(JObj(<< TypeTag(<<"C", "o", "n", "n", "e", "c", "t">>),
                          <<CamelCase(<<"s", "e", "s", "s", "i", "o", "n", "_", "i", "d">>), JString(UuidHyphenated(f.session_id))>>,
                          <<CamelCase(<<"c", "o", "n", "n", "e", "c", "t", "i", "o", "n", "_", "c", "o", "u", "n", "t">>), JInt(f.connection_count)>>,
                          <<CamelCase(<<"l", "a", "s", "t", "_", "c", "l", "o", "s", "e", "_", "r", "e", "a", "s", "o", "n">>), JString(f.last_close_reason)>> >>))
          [] TagOf(m) = "ModifyQuerySet" ->
               LET mods == Collect([i \in DOMAIN f.modifications |->
                                       QuerySetModificationToJson(f.modifications[i])])
               IN  IF ~mods.ok THEN mods
                   ELSE Ok(JObj(<< TypeTag(<<"M", "o", "d", "i", "f", "y", "Q", "u", "e", "r", "y", "S", "e", "t">>),
                                   <<CamelCase(<<"b", "a", "s", "e", "_", "v", "e", "r", "s", "i", "o", "n">>), JInt(f.base_version)>>,
                                   <<CamelCase(<<"n", "e", "w", "_", "v", "e", "r", "s", "i", "o", "n">>), JInt(f.new_version)>>,
                                   <<CamelCase(<<"m", "o", "d", "i", "f", "i", "c", "a", "t", "i", "o", "n", "s">>), JArray(mods.v)>> >>))
          [] TagOf(m) = "Mutation" ->
               Ok(JObj(<< TypeTag(<<"M", "u", "t", "a", "t", "i", "o", "n">>),
                          <<CamelCase(<<"m", "u", "t", "a", "t", "i", "o", "n", "_", "i", "d">>), JOptU32(None)>>,
                          <<CamelCase(<<"r", "e", "q", "u", "e", "s", "t", "_", "i", "d">>), JOptU32(Some(f.request_id))>>,
                          <<CamelCase(<<"u", "d", "f", "_", "p", "a", "t", "h">>), JString(UdfPathToString(f.udf_path))>>,
                          <<CamelCase(<<"a", "r", "g", "s">>), JArray(f.args)>> >>))
          [] TagOf(m) = "Action" ->
               Ok(JObj(<< TypeTag(<<"A", "c", "t", "i", "o", "n">>),
                          <<CamelCase(<<"a", "c", "t", "i", "o", "n", "_", "i", "d">>), JOptU32(Some(f.request_id))>>,
                          <<CamelCase(<<"r", "e", "q", "u", "e", "s", "t", "_", "i", "d">>), JOptU32(Some(f.request_id))>>,
                          <<CamelCase(<<"u", "d", "f", "_", "p", "a", "t", "h">>), JString(UdfPathToString(f.udf_path))>>,
                          <<CamelCase(<<"a", "r", "g", "s">>), JArray(f.args)>> >>))
          [] TagOf(m) = "Authenticate" ->
               Ok(JObj(<< TypeTag(<<"A", "u", "t", "h", "e", "n", "t", "i", "c", "a", "t", "e">>),
                          <<CamelCase(<<"b", "a", "s", "e", "_", "v", "e", "r", "s", "i", "o", "n">>), JInt(f.base_version)>> >>
                       \o AuthenticationTokenToJson(f.token)))
          [] TagOf(m) = "Event" ->
               Ok(JObj(<< TypeTag(<<"E", "v", "e", "n", "t">>),
                          <<CamelCase(<<"e", "v", "e", "n", "t", "_", "t", "y", "p", "e">>), JString(f.event_type)>>,
                          <<CamelCase(<<"e", "v", "e", "n", "t">>), f.event>> >>))

\* TryFrom<ClientMessage> for JsonValue
ClientToJson(m) ==
    LET f == Val(m)
    IN  CASE TagOf(m) = "Connect" ->
               Ok(JObj(<< TypeTag(<<"C", "o", "n", "n", "e", "c", "t">>),
                          <<CamelCase(<<"s", "e", "s", "s", "i", "o", "n", "_", "i", "d">>), JString(UuidHyphenated(f.session_id))>>,
                          <<CamelCase(<<"c", "o", "n", "n", "e", "c", "t", "i", "o", "n", "_", "c", "o", "u", "n", "t">>), JInt(f.connection_count)>>,
                          <<CamelCase(<<"l", "a", "s", "t", "_", "c", "l", "o", "s", "e", "_", "r", "e", "a", "s", "o", "n">>), JString(f.last_close_reason)>> >>))
          [] TagOf(m) = "ModifyQuerySet" ->
               LET mods == Collect([i \in DOMAIN f.modifications |->
                                       QuerySetModificationToJson(f.modifications[i])])
               IN  IF ~mods.ok THEN mods
                   ELSE Ok(JObj(<< TypeTag(<<"M", "o", "d", "i", "f", "y", "Q", "u", "e", "r", "y", "S", "e", "t">>),
                                   <<CamelCase(<<"b", "a", "s", "e", "_", "v", "e", "r", "s", "i", "o", "n">>), JInt(f.base_version)>>,
                                   <<CamelCase(<<"n", "e", "w", "_", "v", "e", "r", "s", "i", "o", "n">>), JInt(f.new_version)>>,
                                   <<CamelCase(<<"m", "o", "d", "i", "f", "i", "c", "a", "t", "i", "o", "n", "s">>), JArray(mods.v)>> >>))
          [] TagOf(m) = "Mutation" ->
               Ok(JObj(<< TypeTag(<<"M", "u", "t", "a", "t", "i", "o", "n">>),
                          <<CamelCase(<<"m", "u", "t", "a", "t", "i", "o", "n", "_", "i", "d">>), JOptU32(Some(f.request_id))>>,
                          <<CamelCase(<<"r", "e", "q", "u", "e", "s", "t", "_", "i", "d">>), JOptU32(Some(f.request_id))>>,
                          <<CamelCase(<<"u", "d", "f", "_", "p", "a", "t", "h">>), JString(UdfPathToString(f.udf_path))>>,
                          <<CamelCase(<<"a", "r", "g", "s">>), JArray(f.args)>> >>))
          [] TagOf(m) = "Action" ->
               Ok(JObj(<< TypeTag(<<"A", "c", "t", "i", "o", "n">>),
                          <<CamelCase(<<"a", "c", "t", "i", "o", "n", "_", "i", "d">>), JOptU32(Some(f.request_id))>>,
                          <<CamelCase(<<"r", "e", "q", "u", "e", "s", "t", "_", "i", "d">>), JOptU32(Some(f.request_id))>>,
                          <<CamelCase(<<"u", "d", "f", "_", "p", "a", "t", "h">>), JString(UdfPathToString(f.udf_path))>>,
                          <<CamelCase(<<"a", "r", "g", "s">>), JArray(f.args)>> >>))
          [] TagOf(m) = "Authenticate" ->
               Ok(JObj(<< TypeTag(<<"A", "u", "t", "h", "e", "n", "t", "i", "c", "a", "t", "e">>),
                          <<CamelCase(<<"b", "a", "s", "e", "_", "v", "e", "r", "s", "i", "o", "n">>), JInt(f.base_version)>> >>
                       \o AuthenticationTokenToJson(f.token)))
          [] TagOf(m) = "Event" ->
               Ok(JObj(<< TypeTag(<<"E", "v", "e", "n", "t">>),
                          <<CamelCase(<<"e", "v", "e", "n", "t", "_", "t", "y", "p", "e">>), JString(f.event_type)>>,
                          <<CamelCase(<<"e", "v", "e", "n", "t">>), f.event>> >>))

\* A decoder that prefers the legacy id.
RequestIdOf_LegacyFirst(request_id, legacy_id) ==
    IF legacy_id.some THEN Ok(legacy_id.x)
    ELSE IF request_id.some THEN Ok(request_id.x)
    ELSE Err("Either mutation_id or request_id must be set")

\* The request id of a decoded Mutation or Action: request_id when it is set,
\* else the legacy id.
RequestIdOf(request_id, legacy_id) ==
    IF request_id.some THEN Ok(request_id.x)
    ELSE IF legacy_id.some THEN Ok(legacy_id.x)
    ELSE Err("Either mutation_id or request_id must be set")

\* The Mutation and Action arms of the decoder; legacyKey is mutationId or
\* actionId.
JsonToRequest(variant, legacyKey, value) ==
    LET r == [ legacy_id |-> OptU32(value, legacyKey),
               request_id |-> OptU32(value, CamelCase(<<"r", "e", "q", "u", "e", "s", "t", "_", "i", "d">>)),
               udf_path |-> ReqString(value, CamelCase(<<"u", "d", "f", "_", "p", "a", "t", "h">>)),
               args |-> ReqJson(value, CamelCase(<<"a", "r", "g", "s">>)) ]
        json_args == FromValueVec(r.args.v)
        request_id == RequestIdOf(r.request_id.v, r.legacy_id.v)
        udf_path == UdfPathParse(r.udf_path.v)
    IN  IF AnyErr(r) THEN FirstErr(r)
        ELSE IF ~json_args.ok THEN json_args
        ELSE IF ~request_id.ok THEN request_id
        ELSE IF ~udf_path.ok THEN udf_path
        ELSE Ok(<<variant, [request_id |-> request_id.v, udf_path |-> udf_path.v,
                            args |-> json_args.v]>>)

\* Deserialize for AuthenticationTokenJson and the token arm of the decoder:
\* acting_as is read from its Rust name or from its alias, and not from both.
JsonToAuthenticationToken(value) ==
    LET variant == VariantOf(value, K_tokenType)
        v == ReqString(value, K_value)
    IN  IF ~variant.ok THEN variant
        ELSE IF variant.v = <<"A", "d", "m", "i", "n">>
        THEN LET acting_as ==
                     IF HasKey(value, <<"a", "c", "t", "i", "n", "g", "_", "a", "s">>) /\ HasKey(value, <<"i", "m", "p", "e", "r", "s", "o", "n", "a", "t", "i", "n", "g">>)
                     THEN Err("duplicate field")
                     ELSE IF HasKey(value, <<"i", "m", "p", "e", "r", "s", "o", "n", "a", "t", "i", "n", "g">>)
                          THEN OptJson(value, <<"i", "m", "p", "e", "r", "s", "o", "n", "a", "t", "i", "n", "g">>)
                          ELSE OptJson(value, <<"a", "c", "t", "i", "n", "g", "_", "a", "s">>)
                 attributes == JsonToUIA(acting_as.v.x)
             IN  IF ~v.ok THEN v
                 ELSE IF ~acting_as.ok THEN acting_as
                 ELSE IF ~acting_as.v.some THEN Ok(<<"Admin", [value |-> v.v, acting_as |-> None]>>)
                 ELSE IF ~attributes.ok THEN attributes
                 ELSE Ok(<<"Admin", [value |-> v.v, acting_as |-> Some(attributes.v)]>>)
        ELSE IF variant.v = <<"U", "s", "e", "r">>
        THEN IF ~v.ok THEN v ELSE Ok(<<"User", v.v>>)
        ELSE IF variant.v = <<"N", "o", "n", "e">> THEN Ok(<<"None", 0>>)
        ELSE Err("unknown variant")

\* A decoder whose default last_close_reason is the empty string.
JsonToClient_EmptyDefault(value) ==
    LET variant == VariantOf(value, K_type)
    IN  IF ~variant.ok THEN variant
        ELSE CASE variant.v = <<"C", "o", "n", "n", "e", "c", "t">> ->
               LET r == [ session_id |-> ReqString(value, CamelCase(<<"s", "e", "s", "s", "i", "o", "n", "_", "i", "d">>)),
                          connection_count |-> ReqU32(value, CamelCase(<<"c", "o", "n", "n", "e", "c", "t", "i", "o", "n", "_", "c", "o", "u", "n", "t">>)),
                          last_close_reason |-> OptString(value, CamelCase(<<"l", "a", "s", "t", "_", "c", "l", "o", "s", "e", "_", "r", "e", "a", "s", "o", "n">>)) ]
                   session_id == SessionIdParse(r.session_id.v)
               IN  IF AnyErr(r) THEN FirstErr(r)
                   ELSE IF ~session_id.ok THEN session_id
                   ELSE Ok(<<"Connect",
                             [ session_id |-> session_id.v,
                               connection_count |-> r.connection_count.v,
                               last_close_reason |->
                                   IF r.last_close_reason.v.some THEN r.last_close_reason.v.x
                                   ELSE <<>> ]>>)
          [] variant.v = <<"M", "o", "d", "i", "f", "y", "Q", "u", "e", "r", "y", "S", "e", "t">> ->
               LET r == [ base_version |-> ReqU32(value, CamelCase(<<"b", "a", "s", "e", "_", "v", "e", "r", "s", "i", "o", "n">>)),
                          new_version |-> ReqU32(value, CamelCase(<<"n", "e", "w", "_", "v", "e", "r", "s", "i", "o", "n">>)),
                          modifications |-> ReqVec(value, CamelCase(<<"m", "o", "d", "i", "f", "i", "c", "a", "t", "i", "o", "n", "s">>)) ]
                   mods == Collect([i \in DOMAIN r.modifications.v |->
                                       JsonToQuerySetModification(r.modifications.v[i])])
               IN  IF AnyErr(r) THEN FirstErr(r)
                   ELSE IF ~mods.ok THEN mods
                   ELSE Ok(<<"ModifyQuerySet",
                             [ base_version |-> r.base_version.v,
                               new_version |-> r.new_version.v,
                               modifications |-> mods.v ]>>)
          [] variant.v = <<"M", "u", "t", "a", "t", "i", "o", "n">> -> JsonToRequest("Mutation", CamelCase(<<"m", "u", "t", "a", "t", "i", "o", "n", "_", "i", "d">>), value)
          [] variant.v = <<"A", "c", "t", "i", "o", "n">> -> JsonToRequest("Action", CamelCase(<<"a", "c", "t", "i", "o", "n", "_", "i", "d">>), value)
          [] variant.v = <<"A", "u", "t", "h", "e", "n", "t", "i", "c", "a", "t", "e">> ->
               LET base_version == ReqU32(value, CamelCase(<<"b", "a", "s", "e", "_", "v", "e", "r", "s", "i", "o", "n">>))
                   token == JsonToAuthenticationToken(value)
               IN  IF ~base_version.ok THEN base_version
                   ELSE IF ~token.ok THEN token
                   ELSE Ok(<<"Authenticate", [base_version |-> base_version.v, token |-> token.v]>>)
          [] variant.v = <<"E", "v", "e", "n", "t">> ->
               LET r == [ event_type |-> ReqString(value, CamelCase(<<"e", "v", "e", "n", "t", "_", "t", "y", "p", "e">>)),
                          event |-> ReqJson(value, CamelCase(<<"e", "v", "e", "n", "t">>)) ]
               IN  IF AnyErr(r) THEN FirstErr(r)
                   ELSE Ok(<<"Event", [event_type |-> r.event_type.v, event |-> r.event.v]>>)
          [] OTHER -> Err("unknown variant")

\* TryFrom<JsonValue> for ClientMessage
JsonToClient(value) ==
    LET variant == VariantOf(value, K_type)
    IN  IF ~variant.ok THEN variant
        ELSE CASE variant.v = <<"C", "o", "n", "n", "e", "c", "t">> ->
               LET r == [ session_id |-> ReqString(value, CamelCase(<<"s", "e", "s", "s", "i", "o", "n", "_", "i", "d">>)),
                          connection_count |-> ReqU32(value, CamelCase(<<"c", "o", "n", "n", "e", "c", "t", "i", "o", "n", "_", "c", "o", "u", "n", "t">>)),
                          last_close_reason |-> OptString(value, CamelCase(<<"l", "a", "s", "t", "_", "c", "l", "o", "s", "e", "_", "r", "e", "a", "s", "o", "n">>)) ]
                   session_id == SessionIdParse(r.session_id.v)
               IN  IF AnyErr(r) THEN FirstErr(r)
                   ELSE IF ~session_id.ok THEN session_id
                   ELSE Ok(<<"Connect",
                             [ session_id |-> session_id.v,
                               connection_count |-> r.connection_count.v,
                               last_close_reason |->
                                   IF r.last_close_reason.v.some THEN r.last_close_reason.v.x
                                   ELSE <<"u", "n", "k", "n", "o", "w", "n">> ]>>)
          [] variant.v = <<"M", "o", "d", "i", "f", "y", "Q", "u", "e", "r", "y", "S", "e", "t">> ->
               LET r == [ base_version |-> ReqU32(value, CamelCase(<<"b", "a", "s", "e", "_", "v", "e", "r", "s", "i", "o", "n">>)),
                          new_version |-> ReqU32(value, CamelCase(<<"n", "e", "w", "_", "v", "e", "r", "s", "i", "o", "n">>)),
                          modifications |-> ReqVec(value, CamelCase(<<"m", "o", "d", "i", "f", "i", "c", "a", "t", "i", "o", "n", "s">>)) ]
                   mods == Collect([i \in DOMAIN r.modifications.v |->
                                       JsonToQuerySetModification(r.modifications.v[i])])
               IN  IF AnyErr(r) THEN FirstErr(r)
                   ELSE IF ~mods.ok THEN mods
                   ELSE Ok(<<"ModifyQuerySet",
                             [ base_version |-> r.base_version.v,
                               new_version |-> r.new_version.v,
                               modifications |-> mods.v ]>>)
          [] variant.v = <<"M", "u", "t", "a", "t", "i", "o", "n">> -> JsonToRequest("Mutation", CamelCase(<<"m", "u", "t", "a", "t", "i", "o", "n", "_", "i", "d">>), value)
          [] variant.v = <<"A", "c", "t", "i", "o", "n">> -> JsonToRequest("Action", CamelCase(<<"a", "c", "t", "i", "o", "n", "_", "i", "d">>), value)
          [] variant.v = <<"A", "u", "t", "h", "e", "n", "t", "i", "c", "a", "t", "e">> ->
               LET base_version == ReqU32(value, CamelCase(<<"b", "a", "s", "e", "_", "v", "e", "r", "s", "i", "o", "n">>))
                   token == JsonToAuthenticationToken(value)
               IN  IF ~base_version.ok THEN base_version
                   ELSE IF ~token.ok THEN token
                   ELSE Ok(<<"Authenticate", [base_version |-> base_version.v, token |-> token.v]>>)
          [] variant.v = <<"E", "v", "e", "n", "t">> ->
               LET r == [ event_type |-> ReqString(value, CamelCase(<<"e", "v", "e", "n", "t", "_", "t", "y", "p", "e">>)),
                          event |-> ReqJson(value, CamelCase(<<"e", "v", "e", "n", "t">>)) ]
               IN  IF AnyErr(r) THEN FirstErr(r)
                   ELSE Ok(<<"Event", [event_type |-> r.event_type.v, event |-> r.event.v]>>)
          [] OTHER -> Err("unknown variant")

----------------------------------------------------------------------------
(* ServerMessage<V> (types.rs) and its codec (json.rs).  V is "Value", the  *)
(* client's payload, or "TestValue", which wraps a JSON value unchanged.    *)

\* V: Into<JsonValue>; the encodings a payload may have.
VToJson(V, v) == IF V = "Value" THEN ValueToJson(v) ELSE {v}

\* V: TryFrom<JsonValue>
VFromJson(V, j) == IF V = "Value" THEN JsonToValue(j) ELSE Ok(j)

StateVersion(query_set, identity, ts) == [query_set |-> query_set, identity |-> identity, ts |-> ts]

\* From<StateVersion> for JsonValue
StateVersionToJson(v) ==
    JObj(<< <<<<"q", "u", "e", "r", "y", "S", "e", "t">>, JInt(v.query_set)>>,
            <<<<"i", "d", "e", "n", "t", "i", "t", "y">>, JInt(v.identity)>>,
            <<<<"t", "s">>, JString(u64_to_string(v.ts))>> >>)

\* TryFrom<JsonValue> for StateVersion
JsonToStateVersion(value) ==
    IF ~IsJObject(value) THEN Err("invalid type")
    ELSE LET s == [ query_set |-> ReqU32(value, CamelCase(<<"q", "u", "e", "r", "y", "_", "s", "e", "t">>)),
                    identity |-> ReqU32(value, CamelCase(<<"i", "d", "e", "n", "t", "i", "t", "y">>)),
                    ts |-> ReqString(value, CamelCase(<<"t", "s">>)) ]
             word == string_to_u64(s.ts.v)
             ts == TimestampTryFrom(word.v)
         IN  IF AnyErr(s) THEN FirstErr(s)
             ELSE IF ~word.ok THEN word
             ELSE IF ~ts.ok THEN ts
             ELSE Ok(StateVersion(s.query_set.v, s.identity.v, ts.v))

\* From<StateModification<V>> for JsonValue
StateModificationToJson(V, m) ==
    LET f == Val(m)
    IN  CASE TagOf(m) = "QueryUpdated" ->
               { JObj(<< TypeTag(<<"Q", "u", "e", "r", "y", "U", "p", "d", "a", "t", "e", "d">>),
                         <<<<"q", "u", "e", "r", "y", "I", "d">>, JInt(f.query_id)>>,
                         <<<<"v", "a", "l", "u", "e">>, jv>>,
                         <<<<"l", "o", "g", "L", "i", "n", "e", "s">>, JStrings(f.log_lines)>>,
                         <<<<"j", "o", "u", "r", "n", "a", "l">>, JOptString(f.journal)>> >>) : jv \in VToJson(V, f.value) }
          [] TagOf(m) = "QueryFailed" ->
               { JObj(<< TypeTag(<<"Q", "u", "e", "r", "y", "F", "a", "i", "l", "e", "d">>),
                         <<<<"q", "u", "e", "r", "y", "I", "d">>, JInt(f.query_id)>>,
                         <<<<"e", "r", "r", "o", "r", "M", "e", "s", "s", "a", "g", "e">>, JString(f.error_message)>>,
                         <<<<"l", "o", "g", "L", "i", "n", "e", "s">>, JStrings(f.log_lines)>>,
                         <<<<"j", "o", "u", "r", "n", "a", "l">>, JOptString(f.journal)>> >>) }
          [] TagOf(m) = "QueryRemoved" ->
               { JObj(<< TypeTag(<<"Q", "u", "e", "r", "y", "R", "e", "m", "o", "v", "e", "d">>), <<<<"q", "u", "e", "r", "y", "I", "d">>, JInt(f.query_id)>> >>) }

\* A decoder whose enum renames its variants to camelCase.
JsonToStateModification_CamelCaseTags(V, value) ==
    LET variant == VariantOf(value, K_type)
        query_id == ReqU32(value, CamelCase(<<"q", "u", "e", "r", "y", "_", "i", "d">>))
        log_lines == ReqVecString(value, CamelCase(<<"l", "o", "g", "_", "l", "i", "n", "e", "s">>))
        journal == OptString(value, CamelCase(<<"j", "o", "u", "r", "n", "a", "l">>))
    IN  IF ~variant.ok THEN variant
        ELSE CASE variant.v = <<"q", "u", "e", "r", "y", "U", "p", "d", "a", "t", "e", "d">> ->
               LET s == [ query_id |-> query_id,
                          value |-> ReqJson(value, CamelCase(<<"v", "a", "l", "u", "e">>)),
                          log_lines |-> log_lines,
                          journal |-> journal ]
                   v == VFromJson(V, s.value.v)
               IN  IF AnyErr(s) THEN FirstErr(s)
                   ELSE IF ~v.ok THEN v
                   ELSE Ok(<<"QueryUpdated",
                             [ query_id |-> query_id.v, value |-> v.v,
                               log_lines |-> log_lines.v, journal |-> journal.v ]>>)
          [] variant.v = <<"q", "u", "e", "r", "y", "F", "a", "i", "l", "e", "d">> ->
               LET s == [ query_id |-> query_id,
                          error_message |-> ReqString(value, CamelCase(<<"e", "r", "r", "o", "r", "_", "m", "e", "s", "s", "a", "g", "e">>)),
                          log_lines |-> log_lines,
                          journal |-> journal ]
               IN  IF AnyErr(s) THEN FirstErr(s)
                   ELSE Ok(<<"QueryFailed",
                             [ query_id |-> query_id.v, error_message |-> s.error_message.v,
                               log_lines |-> log_lines.v, journal |-> journal.v ]>>)
          [] variant.v = <<"q", "u", "e", "r", "y", "R", "e", "m", "o", "v", "e", "d">> ->
               IF ~query_id.ok THEN query_id
               ELSE Ok(<<"QueryRemoved", [query_id |-> query_id.v]>>)
          [] OTHER -> Err("unknown variant")

\* TryFrom<JsonValue> for StateModification<V>
JsonToStateModification(V, value) ==
    LET variant == VariantOf(value, K_type)
        query_id == ReqU32(value, CamelCase(<<"q", "u", "e", "r", "y", "_", "i", "d">>))
        log_lines == ReqVecString(value, CamelCase(<<"l", "o", "g", "_", "l", "i", "n", "e", "s">>))
        journal == OptString(value, CamelCase(<<"j", "o", "u", "r", "n", "a", "l">>))
    IN  IF ~variant.ok THEN variant
        ELSE CASE variant.v = <<"Q", "u", "e", "r", "y", "U", "p", "d", "a", "t", "e", "d">> ->
               LET s == [ query_id |-> query_id,
                          value |-> ReqJson(value, CamelCase(<<"v", "a", "l", "u", "e">>)),
                          log_lines |-> log_lines,
                          journal |-> journal ]
                   v == VFromJson(V, s.value.v)
               IN  IF AnyErr(s) THEN FirstErr(s)
                   ELSE IF ~v.ok THEN v
                   ELSE Ok(<<"QueryUpdated",
                             [ query_id |-> query_id.v, value |-> v.v,
                               log_lines |-> log_lines.v, journal |-> journal.v ]>>)
          [] variant.v = <<"Q", "u", "e", "r", "y", "F", "a", "i", "l", "e", "d">> ->
               LET s == [ query_id |-> query_id,
                          error_message |-> ReqString(value, CamelCase(<<"e", "r", "r", "o", "r", "_", "m", "e", "s", "s", "a", "g", "e">>)),
                          log_lines |-> log_lines,
                          journal |-> journal ]
               IN  IF AnyErr(s) THEN FirstErr(s)
                   ELSE Ok(<<"QueryFailed",
                             [ query_id |-> query_id.v, error_message |-> s.error_message.v,
                               log_lines |-> log_lines.v, journal |-> journal.v ]>>)
          [] variant.v = <<"Q", "u", "e", "r", "y", "R", "e", "m", "o", "v", "e", "d">> ->
               IF ~query_id.ok THEN query_id
               ELSE Ok(<<"QueryRemoved", [query_id |-> query_id.v]>>)
          [] OTHER -> Err("unknown variant")

QueryFailure(query_id, message, log_lines) ==
    [query_id |-> query_id, message |-> message, log_lines |-> log_lines]

\* From<QueryFailure> for JsonValue
QueryFailureToJson(q) ==
    JObj(<< <<<<"q", "u", "e", "r", "y", "I", "d">>, JInt(q.query_id)>>,
            <<<<"m", "e", "s", "s", "a", "g", "e">>, JString(q.message)>>,
            <<<<"l", "o", "g", "L", "i", "n", "e", "s">>, JStrings(q.log_lines)>> >>)

\* TryFrom<JsonValue> for QueryFailure
JsonToQueryFailure(value) ==
    IF ~IsJObject(value) THEN Err("invalid type")
    ELSE LET q == [ query_id |-> ReqU32(value, CamelCase(<<"q", "u", "e", "r", "y", "_", "i", "d">>)),
                    message |-> ReqString(value, CamelCase(<<"m", "e", "s", "s", "a", "g", "e">>)),
                    log_lines |-> ReqVecString(value, CamelCase(<<"l", "o", "g", "_", "l", "i", "n", "e", "s">>)) ]
         IN  IF AnyErr(q) THEN FirstErr(q)
             ELSE Ok(QueryFailure(q.query_id.v, q.message.v, q.log_lines.v))

\* The JSON of an optional timestamp: ts.map(|ts| u64_to_string(ts.into()))
JOptTimestamp(ts) == IF ts.some THEN JString(u64_to_string(ts.x)) ELSE JNull

\* The encodings of the result of a response: success and result.
ResultToJson(V, result) ==
    IF result.ok
    THEN { << <<<<"s", "u", "c", "c", "e", "s", "s">>, JBool(TRUE)>>, <<<<"r", "e", "s", "u", "l", "t">>, jv>> >> : jv \in VToJson(V, result.v) }
    ELSE { << <<<<"s", "u", "c", "c", "e", "s", "s">>, JBool(FALSE)>>, <<<<"r", "e", "s", "u", "l", "t">>, JString(result.err)>> >> }

\* From<ServerMessage<V>> for JsonValue
ServerToJson(V, m) ==
    LET f == Val(m)
    IN  CASE TagOf(m) = "Transition" ->
               { JObj(<< TypeTag(<<"T", "r", "a", "n", "s", "i", "t", "i", "o", "n">>),
                         <<<<"s", "t", "a", "r", "t", "V", "e", "r", "s", "i", "o", "n">>, StateVersionToJson(f.start_version)>>,
                         <<<<"e", "n", "d", "V", "e", "r", "s", "i", "o", "n">>, StateVersionToJson(f.end_version)>>,
                         <<<<"m", "o", "d", "i", "f", "i", "c", "a", "t", "i", "o", "n", "s">>, JArray(mods)>> >>) :
                 mods \in ChooseEach([i \in DOMAIN f.modifications |->
                                         StateModificationToJson(V, f.modifications[i])]) }
          [] TagOf(m) = "QueriesFailed" ->
               { JObj(<< TypeTag(<<"Q", "u", "e", "r", "i", "e", "s", "F", "a", "i", "l", "e", "d">>),
                         <<<<"f", "a", "i", "l", "u", "r", "e", "s">>, JArray([i \in DOMAIN f.failures |->
                                                   QueryFailureToJson(f.failures[i])])>> >>) }
          [] TagOf(m) = "MutationResponse" ->
               { JObj(<< TypeTag(<<"M", "u", "t", "a", "t", "i", "o", "n", "R", "e", "s", "p", "o", "n", "s", "e">>),
                         <<<<"m", "u", "t", "a", "t", "i", "o", "n", "I", "d">>, JInt(f.request_id)>>,
                         <<<<"r", "e", "q", "u", "e", "s", "t", "I", "d">>, JInt(f.request_id)>> >>
                      \o r
                      \o << <<<<"t", "s">>, JOptTimestamp(f.ts)>>,
                            <<<<"l", "o", "g", "L", "i", "n", "e", "s">>, JStrings(f.log_lines)>> >>) :
                 r \in ResultToJson(V, f.result) }
          [] TagOf(m) = "ActionResponse" ->
               { JObj(<< TypeTag(<<"A", "c", "t", "i", "o", "n", "R", "e", "s", "p", "o", "n", "s", "e">>),
                         <<<<"a", "c", "t", "i", "o", "n", "I", "d">>, JInt(f.request_id)>>,
                         <<<<"r", "e", "q", "u", "e", "s", "t", "I", "d">>, JInt(f.request_id)>> >>
                      \o r
                      \o << <<<<"l", "o", "g", "L", "i", "n", "e", "s">>, JStrings(f.log_lines)>> >>) :
                 r \in ResultToJson(V, f.result) }
          [] TagOf(m) = "AuthError" ->
               { JObj(<< TypeTag(<<"A", "u", "t", "h", "E", "r", "r", "o", "r">>),
                         <<<<"e", "r", "r", "o", "r">>, JString(f.error_message)>>,
                         <<<<"b", "a", "s", "e", "V", "e", "r", "s", "i", "o", "n">>, JOptU32(f.base_version)>> >>) }
          [] TagOf(m) = "FatalError" ->
               { JObj(<< TypeTag(<<"F", "a", "t", "a", "l", "E", "r", "r", "o", "r">>), <<<<"e", "r", "r", "o", "r">>, JString(f.error_message)>> >>) }
          [] TagOf(m) = "Ping" -> { JObj(<< TypeTag(<<"P", "i", "n", "g">>) >>) }

\* A decoder of the result that does not look at success.
JsonToResult_IgnoreSuccess(V, success, result) ==
    LET v == VFromJson(V, result) IN IF v.ok THEN Ok(Ok(v.v)) ELSE v

\* A decoder that reads any result as an error message when success is false.
JsonToResult_LenientError(V, success, result) ==
    IF success
    THEN LET v == VFromJson(V, result) IN IF v.ok THEN Ok(Ok(v.v)) ELSE v
    ELSE LET msg == FromValueString(result) IN IF msg.ok THEN Ok(Err(msg.v)) ELSE Ok(Err(<<>>))

\* The result of a decoded response: the payload when success is true, else
\* the error string.
JsonToResult(V, success, result) ==
    IF success
    THEN LET v == VFromJson(V, result) IN IF v.ok THEN Ok(Ok(v.v)) ELSE v
    ELSE LET msg == FromValueString(result) IN IF msg.ok THEN Ok(Err(msg.v)) ELSE msg

\* The timestamp of a decoded MutationResponse.
JsonToOptTimestamp(ts) ==
    IF ~ts.some THEN Ok(None)
    ELSE LET word == string_to_u64(ts.x)
             t == TimestampTryFrom(word.v)
         IN  IF ~word.ok THEN word
             ELSE IF ~t.ok THEN t
             ELSE Ok(Some(t.v))

\* The MutationResponse and ActionResponse arms of the decoder; legacyKey is
\* mutationId or actionId, and only a MutationResponse has a ts.
JsonToResponse(V, variant, legacyKey, value) ==
    LET s == [ request_id |-> OptU32(value, CamelCase(<<"r", "e", "q", "u", "e", "s", "t", "_", "i", "d">>)),
               legacy_id |-> OptU32(value, legacyKey),
               success |-> ReqBool(value, CamelCase(<<"s", "u", "c", "c", "e", "s", "s">>)),
               result |-> ReqJson(value, CamelCase(<<"r", "e", "s", "u", "l", "t">>)),
               ts |-> IF variant = "MutationResponse" THEN OptString(value, CamelCase(<<"t", "s">>))
                      ELSE Ok(None),
               log_lines |-> ReqVecString(value, CamelCase(<<"l", "o", "g", "_", "l", "i", "n", "e", "s">>)) ]
        result == JsonToResult(V, s.success.v, s.result.v)
        request_id == RequestIdOf(s.request_id.v, s.legacy_id.v)
        ts == JsonToOptTimestamp(s.ts.v)
    IN  IF AnyErr(s) THEN FirstErr(s)
        ELSE IF ~result.ok THEN result
        ELSE IF ~request_id.ok THEN request_id
        ELSE IF variant = "MutationResponse"
        THEN IF ~ts.ok THEN ts
             ELSE Ok(<<variant, [ request_id |-> request_id.v, result |-> result.v,
                                  ts |-> ts.v, log_lines |-> s.log_lines.v ]>>)
        ELSE Ok(<<variant, [ request_id |-> request_id.v, result |-> result.v,
                             log_lines |-> s.log_lines.v ]>>)

\* TryFrom<JsonValue> for ServerMessage<V>
JsonToServer(V, value) ==
    LET variant == VariantOf(value, K_type)
    IN  IF ~variant.ok THEN variant
        ELSE CASE variant.v = <<"T", "r", "a", "n", "s", "i", "t", "i", "o", "n">> ->
               LET s == [ start_version |-> ReqJson(value, CamelCase(<<"s", "t", "a", "r", "t", "_", "v", "e", "r", "s", "i", "o", "n">>)),
                          end_version |-> ReqJson(value, CamelCase(<<"e", "n", "d", "_", "v", "e", "r", "s", "i", "o", "n">>)),
                          modifications |-> ReqVec(value, CamelCase(<<"m", "o", "d", "i", "f", "i", "c", "a", "t", "i", "o", "n", "s">>)) ]
                   start_version == JsonToStateVersion(s.start_version.v)
                   end_version == JsonToStateVersion(s.end_version.v)
                   mods == Collect([i \in DOMAIN s.modifications.v |->
                                       JsonToStateModification(V, s.modifications.v[i])])
               IN  IF AnyErr(s) THEN FirstErr(s)
                   ELSE IF ~start_version.ok THEN start_version
                   ELSE IF ~end_version.ok THEN end_version
                   ELSE IF ~mods.ok THEN mods
                   ELSE Ok(<<"Transition",
                             [ start_version |-> start_version.v,
                               end_version |-> end_version.v,
                               modifications |-> mods.v ]>>)
          [] variant.v = <<"Q", "u", "e", "r", "i", "e", "s", "F", "a", "i", "l", "e", "d">> ->
               LET failures == ReqVec(value, CamelCase(<<"f", "a", "i", "l", "u", "r", "e", "s">>))
                   fs == Collect([i \in DOMAIN failures.v |-> JsonToQueryFailure(failures.v[i])])
               IN  IF ~failures.ok THEN failures
                   ELSE IF ~fs.ok THEN fs
                   ELSE Ok(<<"QueriesFailed", [failures |-> fs.v]>>)
          [] variant.v = <<"M", "u", "t", "a", "t", "i", "o", "n", "R", "e", "s", "p", "o", "n", "s", "e">> ->
               JsonToResponse(V, "MutationResponse", CamelCase(<<"m", "u", "t", "a", "t", "i", "o", "n", "_", "i", "d">>), value)
          [] variant.v = <<"A", "c", "t", "i", "o", "n", "R", "e", "s", "p", "o", "n", "s", "e">> ->
               JsonToResponse(V, "ActionResponse", CamelCase(<<"a", "c", "t", "i", "o", "n", "_", "i", "d">>), value)
          [] variant.v = <<"F", "a", "t", "a", "l", "E", "r", "r", "o", "r">> ->
               LET error == ReqString(value, CamelCase(<<"e", "r", "r", "o", "r">>))
               IN  IF ~error.ok THEN error
                   ELSE Ok(<<"FatalError", [error_message |-> error.v]>>)
          [] variant.v = <<"A", "u", "t", "h", "E", "r", "r", "o", "r">> ->
               LET s == [ error |-> ReqString(value, CamelCase(<<"e", "r", "r", "o", "r">>)),
                          base_version |-> OptU32(value, CamelCase(<<"b", "a", "s", "e", "_", "v", "e", "r", "s", "i", "o", "n">>)) ]
               IN  IF AnyErr(s) THEN FirstErr(s)
                   ELSE Ok(<<"AuthError", [ error_message |-> s.error.v,
                                            base_version |-> s.base_version.v ]>>)
          [] variant.v = <<"P", "i", "n", "g">> -> Ok(<<"Ping", 0>>)
          [] OTHER -> Err("unknown variant")

----------------------------------------------------------------------------
(* The inputs of the runs.                                                 *)

\* The subsets of S of at most n elements.
SubsetsUpTo(S, n) == {T \in SUBSET S : Cardinality(T) <= n}

\* The sequences over S of at most n elements.
SeqsUpTo(S, n) == UNION {[1..k -> S] : k \in 0..n}

\* The functions from a subset of K of at most n elements to V.
MapsUpTo(K, V, n) == UNION {[D -> V] : D \in SubsetsUpTo(K, n)}

PositiveZero == <<0, 0, 0, 0>>
PositiveInfinity == <<0, 0, 0, 32752>>
NegativeInfinity == <<0, 0, 0, 65520>>
OnePointZero == <<0, 0, 0, 16368>>
MinusOnePointZero == <<0, 0, 0, 49136>>
MinSubnormal == <<1, 0, 0, 0>>
NegSubnormal == <<0, 0, 0, 32783>>
MaxFinite == <<65535, 65535, 65535, 32751>>
QuietNaN == <<0, 0, 0, 32760>>
PayloadNaN == <<1, 0, 0, 32752>>
NegativeNaN == <<4660, 0, 0, 65528>>

Floats ==
    { PositiveZero, NegativeZero, PositiveInfinity, NegativeInfinity, OnePointZero,
      MinusOnePointZero, MinSubnormal, NegSubnormal, MaxFinite, QuietNaN, PayloadNaN,
      NegativeNaN }

Int64s == { <<0, 0, 0, 0>>, <<1, 0, 0, 0>>, <<65535, 65535, 65535, 65535>>, <<0, 0, 0, 32768>> }

Strings == { <<>>, <<"a">>, <<"$", "a">> }

ByteStrings == { <<>>, <<255>>, <<1, 2>>, <<1, 2, 3>>, <<0, 0, 0, 0, 0, 0, 240, 63>> }

ScalarValues ==
    {VNull, VBoolean(TRUE), VBoolean(FALSE), VId(<<"a">>)}
    \cup {VInt64(n) : n \in Int64s}
    \cup {VFloat64(n) : n \in Floats}
    \cup {VString(x) : x \in Strings}
    \cup {VBytes(b) : b \in ByteStrings}

\* The elements of the composite inputs.
ElemValues ==
    { VNull, VFloat64(QuietNaN), VFloat64(NegativeZero), VFloat64(OnePointZero),
      VInt64(<<1, 0, 0, 0>>), VString(<<"a">>) }

MemberValues == { VNull, VFloat64(PayloadNaN), VBytes(<<1, 2>>) }

\* Field names of an Object: they do not begin with "$" (spec 3.1).
FieldNames == { <<"a">>, <<"b">>, <<"i", "d">> }

CompositeValues ==
    {VArray(a) : a \in SeqsUpTo(ElemValues, MaxLen)}
    \cup {VSet(x) : x \in SubsetsUpTo(ElemValues, MaxLen)}
    \cup {VMap(m) : m \in MapsUpTo(ElemValues, MemberValues, MaxLen)}
    \cup {VObject(o) : o \in MapsUpTo(FieldNames, MemberValues, MaxLen)}

\* A composite nested in an Array, a Set, a Map (as key and as value) and an
\* Object.
NestedValues ==
    UNION { { VArray(<<x>>), VSet({x}), VMap(x :> VNull), VMap(VNull :> x),
              VObject(<<"a">> :> x) } : x \in CompositeValues }

ValueInputs == ScalarValues \cup CompositeValues \cup NestedValues

\* The subsets of S of at most n elements, built by adding one element at a
\* time.
RECURSIVE KSubsets(_, _)
KSubsets(S, n) ==
    IF n = 0 THEN {{}}
    ELSE LET P == KSubsets(S, n - 1) IN P \cup {T \cup {x} : T \in P, x \in S}

\* The optional fields with those of `present` set and the others None: a
\* string field to "a", a bool field to either bool.
AttrsWith(present) ==
    {[f \in UIAFields |->
         IF f \notin present THEN None
         ELSE IF f \in Range(UIABoolFields) THEN Some(c[f])
         ELSE Some(<<"a">>)] :
        c \in [present \cap Range(UIABoolFields) -> BOOLEAN]}

\* A token_identifier that is "<issuer>|<subject>" of the inputs, and others
\* that are not.
UIATokens == { UserIdentifierConstruct(<<"a">>, <<"a">>), <<"t">>, <<>> }

\* UserIdentityAttributes with at most MaxPresent optional fields set, and
\* with all of them set.
UIAInputs ==
    {UIA(t, a) : t \in UIATokens,
                 a \in UNION {AttrsWith(P) : P \in KSubsets(UIAFields, MaxPresent) \cup {UIAFields}}}

SessionIds ==
    { [i \in 1..32 |-> 0], [i \in 1..32 |-> 15], [i \in 1..32 |-> (i * 7) % 16] }

UdfPaths == { <<"a">>, <<"m", ":", "f">> }

ArgLists == SeqsUpTo({JNull, JString(<<"a">>)}, MaxLen)

Journals == { None, Some(None), Some(Some(<<"j">>)) }

QuerySetModifications ==
    {<<"Add", Query(q, u, a, j)>> : q \in {0, 1}, u \in UdfPaths, a \in ArgLists, j \in Journals}
        \cup {<<"Remove", [query_id |-> q]>> : q \in {0, 1}}

\* Lists of at most MaxLen modifications; the longer ones start with a Remove.
RECURSIVE Prefixed(_, _, _)
Prefixed(first, S, n) ==
    IF n = 0 THEN {<<>>}
    ELSE {<<>>} \cup S \cup {<<first>> \o t : t \in Prefixed(first, S, n - 1)}

AuthenticationTokens ==
    { <<"None", 0>> }
        \cup {<<"User", v>> : v \in {<<>>, <<"k">>}}
        \cup {<<"Admin", [value |-> v, acting_as |-> a]>> :
                 v \in {<<>>, <<"k">>},
                 a \in {None} \cup {Some(UIA(t, x)) : t \in UIATokens,
                                       x \in UNION {AttrsWith(P) : P \in KSubsets(UIAFields, 1)}}}

ClientEvents ==
    {<<"Event", [event_type |-> t, event |-> e]>> :
        t \in {<<>>, <<"e">>},
        e \in {JNull, JString(<<"a">>), JInt(1), JFloat(OnePointZero), JArray(<<JNull>>),
               JObj(<< <<<<"k">>, JBool(TRUE)>> >>)}}

ClientInputs ==
    {<<"Connect", [session_id |-> s, connection_count |-> c, last_close_reason |-> r]>> :
        s \in SessionIds, c \in {0, 1}, r \in {<<>>, <<"u", "n", "k", "n", "o", "w", "n">>, <<"a">>}}
    \cup {<<"ModifyQuerySet", [base_version |-> b, new_version |-> b + 1, modifications |-> ms]>> :
            b \in {0, 1},
            ms \in Prefixed(<<"Remove", [query_id |-> 1]>>,
                            {<<m>> : m \in QuerySetModifications}, MaxLen)}
    \cup {<<t, [request_id |-> r, udf_path |-> u, args |-> a]>> :
            t \in {"Mutation", "Action"}, r \in {0, 1, 7}, u \in UdfPaths, a \in ArgLists}
    \cup {<<"Authenticate", [base_version |-> b, token |-> t]>> :
            b \in {0, 1}, t \in AuthenticationTokens}
    \cup ClientEvents

\* The payloads of a ServerMessage<V>.
Payloads(V) ==
    IF V = "Value"
    THEN { VNull, VInt64(<<1, 0, 0, 0>>), VFloat64(QuietNaN), VFloat64(OnePointZero),
           VSet({VNull, VBoolean(TRUE)}) }
    ELSE { JNull, JString(<<"a">>), JInt(1), JFloat(OnePointZero),
           JObj(<< <<K_integer, JString(<<"x">>)>> >>) }

\* Timestamps, up to i64::MAX.
Timestamps == { TimestampMin, <<1, 0, 0, 0>>, <<65535, 65535, 65535, 32767>> }

StateVersions ==
    { StateVersion(0, 0, TimestampMin), StateVersion(1, 0, <<1, 0, 0, 0>>),
      StateVersion(1, 2, <<65535, 65535, 65535, 32767>>) }

LogLineLists == SeqsUpTo({<<"l">>}, MaxLen)

StateModifications(V) ==
    {<<"QueryUpdated", [query_id |-> q, value |-> v, log_lines |-> l, journal |-> j]>> :
        q \in {0, 1}, v \in Payloads(V), l \in {<<>>, <<<<"l">>>>}, j \in {None, Some(<<"j">>)}}
    \cup {<<"QueryFailed", [query_id |-> q, error_message |-> <<"e">>, log_lines |-> l, journal |-> j]>> :
            q \in {0, 1}, l \in {<<>>, <<<<"l">>>>}, j \in {None, Some(<<"j">>)}}
    \cup {<<"QueryRemoved", [query_id |-> q]>> : q \in {0, 1}}

QueryFailures == {QueryFailure(q, m, l) : q \in {0, 1}, m \in {<<>>, <<"m">>}, l \in {<<>>, <<<<"l">>>>}}

Results(V) == {Ok(v) : v \in Payloads(V)} \cup {Err(e) : e \in {<<>>, <<"e">>}}

ServerInputs(V) ==
    {<<"Transition", [start_version |-> a, end_version |-> b, modifications |-> ms]>> :
        a \in StateVersions, b \in StateVersions,
        ms \in Prefixed(<<"QueryRemoved", [query_id |-> 1]>>,
                        {<<m>> : m \in StateModifications(V)}, MaxLen)}
    \cup {<<"QueriesFailed", [failures |-> fs]>> :
            fs \in Prefixed(QueryFailure(1, <<"m">>, <<>>), {<<q>> : q \in QueryFailures}, MaxLen)}
    \cup {<<"MutationResponse", [request_id |-> r, result |-> x, ts |-> t, log_lines |-> l]>> :
            r \in {0, 1}, x \in Results(V), t \in {None} \cup {Some(w) : w \in Timestamps},
            l \in LogLineLists}
    \cup {<<"ActionResponse", [request_id |-> r, result |-> x, log_lines |-> l]>> :
            r \in {0, 1}, x \in Results(V), l \in LogLineLists}
    \cup {<<"AuthError", [error_message |-> e, base_version |-> b]>> :
            e \in {<<>>, <<"e">>}, b \in {None, Some(0), Some(1)}}
    \cup {<<"FatalError", [error_message |-> e]>> : e \in {<<>>, <<"e">>}}
    \cup {<<"Ping", 0>>}

\* The members of a JSON input for an optional key: none, or the key with a value.
OptMember(key, o) == IF o.some THEN << <<key, o.x>> >> ELSE <<>>

\* What a JSON input holds under requestId and under the legacy id key.
IdChoices == { None, Some(JNull), Some(JInt(1)), Some(JInt(2)) }

\* The type tags of the requests and of the responses, each with its legacy id key.
RequestKinds == { <<<<"M", "u", "t", "a", "t", "i", "o", "n">>, <<"m", "u", "t", "a", "t", "i", "o", "n", "I", "d">>>>, <<<<"A", "c", "t", "i", "o", "n">>, <<"a", "c", "t", "i", "o", "n", "I", "d">>>> }
ResponseKinds == { <<<<"M", "u", "t", "a", "t", "i", "o", "n", "R", "e", "s", "p", "o", "n", "s", "e">>, <<"m", "u", "t", "a", "t", "i", "o", "n", "I", "d">>>>, <<<<"A", "c", "t", "i", "o", "n", "R", "e", "s", "p", "o", "n", "s", "e">>, <<"a", "c", "t", "i", "o", "n", "I", "d">>>> }

\* Mutation and Action documents, with every choice of the two ids.
RequestJsons ==
    { JObj(<< TypeTag(t[1]), <<<<"u", "d", "f", "P", "a", "t", "h">>, JString(<<"a">>)>>, <<<<"a", "r", "g", "s">>, JArray(<<JNull>>)>> >>
           \o OptMember(<<"r", "e", "q", "u", "e", "s", "t", "I", "d">>, r) \o OptMember(t[2], l)) :
        t \in RequestKinds, r \in IdChoices, l \in IdChoices }

\* MutationResponse and ActionResponse documents, with every choice of the two
\* ids, of success and of the form of result.
ResponseJsons ==
    { JObj(<< TypeTag(t[1]), <<<<"s", "u", "c", "c", "e", "s", "s">>, JBool(s)>>, <<<<"r", "e", "s", "u", "l", "t">>, x>>,
              <<<<"l", "o", "g", "L", "i", "n", "e", "s">>, JStrings(<<<<"l">>>>)>> >>
           \o OptMember(<<"r", "e", "q", "u", "e", "s", "t", "I", "d">>, r) \o OptMember(t[2], l) \o OptMember(<<"t", "s">>, ts)) :
        t \in ResponseKinds, r \in IdChoices, l \in IdChoices, s \in BOOLEAN,
        x \in { JString(<<"e">>), JInt(1), JNull, JObj(<< <<K_integer, JString(<<"x">>)>> >>) },
        ts \in { None, Some(JString(u64_to_string(<<1, 0, 0, 0>>))) } }

\* The legacy Authenticate documents of authentication_token_backwards_compatability.
LegacyAuthJsons ==
    { JObj(<< TypeTag(<<"A", "u", "t", "h", "e", "n", "t", "i", "c", "a", "t", "e">>), <<K_tokenType, JString(t)>>,
              <<K_value, JString(<<"f", "a", "k", "e", "f", "a", "k", "e", "f", "a", "k", "e">>)>>, <<<<"b", "a", "s", "e", "V", "e", "r", "s", "i", "o", "n">>, JInt(0)>> >>) :
        t \in {<<"A", "d", "m", "i", "n">>, <<"U", "s", "e", "r">>} }

\* Identity attributes documents that decode: with a tokenIdentifier, and with
\* an issuer and a subject.
AttributesJsons ==
    { JObj(<< <<<<"t", "o", "k", "e", "n", "I", "d", "e", "n", "t", "i", "f", "i", "e", "r">>, JString(<<"t">>)>> >>),
      JObj(<< <<<<"i", "s", "s", "u", "e", "r">>, JString(<<"i">>)>>, <<<<"s", "u", "b", "j", "e", "c", "t">>, JString(<<"s">>)>> >>),
      JObj(<< <<<<"t", "o", "k", "e", "n", "I", "d", "e", "n", "t", "i", "f", "i", "e", "r">>, JString(<<"t">>)>>, <<<<"n", "a", "m", "e">>, JString(<<"n">>)>>,
              <<<<"e", "m", "a", "i", "l", "V", "e", "r", "i", "f", "i", "e", "d">>, JBool(TRUE)>> >>) }

\* The keys an Admin Authenticate document may carry the attributes under.
ActingAsKeys == { <<"a", "c", "t", "i", "n", "g", "A", "s">>, <<"a", "c", "t", "i", "n", "g", "_", "a", "s">>, <<"i", "m", "p", "e", "r", "s", "o", "n", "a", "t", "i", "n", "g">> }

\* Admin Authenticate documents that carry identity attributes under one key.
AdminActingJsons ==
    { JObj(<< TypeTag(<<"A", "u", "t", "h", "e", "n", "t", "i", "c", "a", "t", "e">>), <<K_tokenType, JString(<<"A", "d", "m", "i", "n">>)>>,
              <<K_value, JString(<<"k">>)>>, <<<<"b", "a", "s", "e", "V", "e", "r", "s", "i", "o", "n">>, JInt(1)>>, <<k, a>> >>) :
        k \in ActingAsKeys, a \in AttributesJsons }

\* The digits of the session id of the Connect documents.
SessionDigits == [i \in 1..32 |-> (i * 7) % 16]

\* Texts of a session id: hyphenated in lower and in upper case, simple, braced
\* and URN; and texts that are no form of a UUID.
SessionIdTexts ==
    LET h == UuidHyphenated(SessionDigits)
        simple == [i \in 1..32 |-> HexLower[SessionDigits[i] + 1]]
    IN  { h, [i \in 1..36 |-> ToUpper(h[i])], simple,
          <<"{">> \o h \o <<"}">>, <<"u", "r", "n", ":", "u", "u", "i", "d", ":">> \o h,
          <<>>, SubSeq(h, 1, 35), h \o <<"0">>, <<"g">> \o Tail(h), <<"-">> \o Tail(simple),
          SubSeq(h, 1, 7) \o <<"-">> \o <<h[8]>> \o SubSeq(h, 10, 36),
          <<"{">> \o h, <<"u", "r", "n", ":", "u", "u", "i", "x", ":">> \o h }

\* What a Connect document holds under lastCloseReason.
CloseReasonChoices == { None, Some(JNull), Some(JString(<<>>)), Some(JString(<<"a">>)),
                        Some(JString(<<"u", "n", "k", "n", "o", "w", "n">>)) }

\* Connect documents.
ConnectJsons ==
    { JObj(<< TypeTag(<<"C", "o", "n", "n", "e", "c", "t">>), <<<<"s", "e", "s", "s", "i", "o", "n", "I", "d">>, JString(t)>>,
              <<<<"c", "o", "n", "n", "e", "c", "t", "i", "o", "n", "C", "o", "u", "n", "t">>, JInt(1)>> >> \o OptMember(<<"l", "a", "s", "t", "C", "l", "o", "s", "e", "R", "e", "a", "s", "o", "n">>, r)) :
        t \in SessionIdTexts, r \in CloseReasonChoices }

\* Entries of a ModifyQuerySet's modifications: an Add, a Remove, and entries
\* that do not decode (a Remove without queryId, an Add with an empty udfPath,
\* an Add with a string as queryId, an unknown type, null).
ModificationEntries ==
    { JObj(<< TypeTag(<<"A", "d", "d">>), <<<<"q", "u", "e", "r", "y", "I", "d">>, JInt(1)>>, <<<<"u", "d", "f", "P", "a", "t", "h">>, JString(<<"a">>)>>, <<<<"a", "r", "g", "s">>, JArray(<<>>)>> >>),
      JObj(<< TypeTag(<<"R", "e", "m", "o", "v", "e">>), <<<<"q", "u", "e", "r", "y", "I", "d">>, JInt(2)>> >>),
      JObj(<< TypeTag(<<"R", "e", "m", "o", "v", "e">>) >>),
      JObj(<< TypeTag(<<"A", "d", "d">>), <<<<"q", "u", "e", "r", "y", "I", "d">>, JInt(1)>>, <<<<"u", "d", "f", "P", "a", "t", "h">>, JString(<<>>)>>, <<<<"a", "r", "g", "s">>, JArray(<<>>)>> >>),
      JObj(<< TypeTag(<<"A", "d", "d">>), <<<<"q", "u", "e", "r", "y", "I", "d">>, JString(<<"1">>)>>, <<<<"u", "d", "f", "P", "a", "t", "h">>, JString(<<"a">>)>>, <<<<"a", "r", "g", "s">>, JArray(<<>>)>> >>),
      JObj(<< TypeTag(<<"O", "t", "h", "e", "r">>), <<<<"q", "u", "e", "r", "y", "I", "d">>, JInt(1)>> >>),
      JNull }

\* ModifyQuerySet documents with up to MaxLen of these entries.
ModifyQuerySetJsons ==
    { JObj(<< TypeTag(<<"M", "o", "d", "i", "f", "y", "Q", "u", "e", "r", "y", "S", "e", "t">>), <<<<"b", "a", "s", "e", "V", "e", "r", "s", "i", "o", "n">>, JInt(0)>>, <<<<"n", "e", "w", "V", "e", "r", "s", "i", "o", "n">>, JInt(1)>>,
              <<<<"m", "o", "d", "i", "f", "i", "c", "a", "t", "i", "o", "n", "s">>, JArray(es)>> >>) : es \in SeqsUpTo(ModificationEntries, MaxLen) }

\* What an Add document holds under journal.
JournalChoices == { None, Some(JNull), Some(JString(<<>>)), Some(JString(<<"j">>)) }

\* ModifyQuerySet documents with one Add, with every choice of its journal.
JournalJsons ==
    { JObj(<< TypeTag(<<"M", "o", "d", "i", "f", "y", "Q", "u", "e", "r", "y", "S", "e", "t">>), <<<<"b", "a", "s", "e", "V", "e", "r", "s", "i", "o", "n">>, JInt(0)>>, <<<<"n", "e", "w", "V", "e", "r", "s", "i", "o", "n">>, JInt(1)>>,
              <<<<"m", "o", "d", "i", "f", "i", "c", "a", "t", "i", "o", "n", "s">>,
                JArray(<< JObj(<< TypeTag(<<"A", "d", "d">>), <<<<"q", "u", "e", "r", "y", "I", "d">>, JInt(1)>>, <<<<"u", "d", "f", "P", "a", "t", "h">>, JString(<<"a">>)>>,
                                  <<<<"a", "r", "g", "s">>, JArray(<<JNull>>)>> >> \o OptMember(<<"j", "o", "u", "r", "n", "a", "l">>, j)) >>)>> >>) :
        j \in JournalChoices }

\* ModifyQuerySet documents with one entry that holds no queryId: an Add with
\* and without a journal, and a Remove.
MissingIdJsons ==
    { JObj(<< TypeTag(<<"M", "o", "d", "i", "f", "y", "Q", "u", "e", "r", "y", "S", "e", "t">>), <<<<"b", "a", "s", "e", "V", "e", "r", "s", "i", "o", "n">>, JInt(0)>>, <<<<"n", "e", "w", "V", "e", "r", "s", "i", "o", "n">>, JInt(1)>>,
              <<<<"m", "o", "d", "i", "f", "i", "c", "a", "t", "i", "o", "n", "s">>, JArray(<<e>>)>> >>) :
        e \in { JObj(<< TypeTag(<<"A", "d", "d">>), <<<<"u", "d", "f", "P", "a", "t", "h">>, JString(<<"a">>)>>, <<<<"a", "r", "g", "s">>, JArray(<<>>)>> >>),
                JObj(<< TypeTag(<<"A", "d", "d">>), <<<<"u", "d", "f", "P", "a", "t", "h">>, JString(<<"a">>)>>, <<<<"a", "r", "g", "s">>, JArray(<<>>)>>,
                        <<<<"j", "o", "u", "r", "n", "a", "l">>, JNull>> >>),
                JObj(<< TypeTag(<<"R", "e", "m", "o", "v", "e">>) >>) } }

ClientJsonInputs ==
    RequestJsons \cup LegacyAuthJsons \cup AdminActingJsons \cup ConnectJsons
        \cup ModifyQuerySetJsons \cup JournalJsons \cup MissingIdJsons

\* The type tags tried on a StateModification document.
ModificationTags ==
    { <<"Q", "u", "e", "r", "y", "U", "p", "d", "a", "t", "e", "d">>, <<"Q", "u", "e", "r", "y", "F", "a", "i", "l", "e", "d">>, <<"Q", "u", "e", "r", "y", "R", "e", "m", "o", "v", "e", "d">>,
      <<"q", "u", "e", "r", "y", "U", "p", "d", "a", "t", "e", "d">>, <<"q", "u", "e", "r", "y", "F", "a", "i", "l", "e", "d">>, <<"q", "u", "e", "r", "y", "R", "e", "m", "o", "v", "e", "d">>,
      <<"q", "u", "e", "r", "y", "u", "p", "d", "a", "t", "e", "d">>, <<"q", "u", "e", "r", "y", "_", "u", "p", "d", "a", "t", "e", "d">>, <<>> }

\* Transition documents with one modification, which holds the fields of every
\* variant, so that its tag alone decides the decode.
TransitionTagJsons ==
    { JObj(<< TypeTag(<<"T", "r", "a", "n", "s", "i", "t", "i", "o", "n">>),
              <<<<"s", "t", "a", "r", "t", "V", "e", "r", "s", "i", "o", "n">>, StateVersionToJson(StateVersion(0, 0, TimestampMin))>>,
              <<<<"e", "n", "d", "V", "e", "r", "s", "i", "o", "n">>, StateVersionToJson(StateVersion(1, 0, <<1, 0, 0, 0>>))>>,
              <<<<"m", "o", "d", "i", "f", "i", "c", "a", "t", "i", "o", "n", "s">>,
                JArray(<< JObj(<< TypeTag(t), <<<<"q", "u", "e", "r", "y", "I", "d">>, JInt(1)>>, <<<<"v", "a", "l", "u", "e">>, JNull>>,
                                  <<<<"e", "r", "r", "o", "r", "M", "e", "s", "s", "a", "g", "e">>, JString(<<"e">>)>>,
                                  <<<<"l", "o", "g", "L", "i", "n", "e", "s">>, JStrings(<<<<"l">>>>)>>,
                                  <<<<"j", "o", "u", "r", "n", "a", "l">>, JNull>> >>) >>)>> >>) :
        t \in ModificationTags }

\* Entries of a Transition's modifications: a QueryRemoved, a QueryFailed, a
\* QueryUpdated whose value only decodes as a TestValue, and entries that do
\* not decode (a QueryRemoved without queryId, null).
TransitionEntries ==
    { JObj(<< TypeTag(<<"Q", "u", "e", "r", "y", "R", "e", "m", "o", "v", "e", "d">>), <<<<"q", "u", "e", "r", "y", "I", "d">>, JInt(1)>> >>),
      JObj(<< TypeTag(<<"Q", "u", "e", "r", "y", "F", "a", "i", "l", "e", "d">>), <<<<"q", "u", "e", "r", "y", "I", "d">>, JInt(2)>>, <<<<"e", "r", "r", "o", "r", "M", "e", "s", "s", "a", "g", "e">>, JString(<<"e">>)>>,
              <<<<"l", "o", "g", "L", "i", "n", "e", "s">>, JStrings(<<>>)>>, <<<<"j", "o", "u", "r", "n", "a", "l">>, JNull>> >>),
      JObj(<< TypeTag(<<"Q", "u", "e", "r", "y", "U", "p", "d", "a", "t", "e", "d">>), <<<<"q", "u", "e", "r", "y", "I", "d">>, JInt(3)>>,
              <<<<"v", "a", "l", "u", "e">>, JObj(<< <<K_integer, JString(<<"x">>)>> >>)>>,
              <<<<"l", "o", "g", "L", "i", "n", "e", "s">>, JStrings(<<>>)>>, <<<<"j", "o", "u", "r", "n", "a", "l">>, JNull>> >>),
      JObj(<< TypeTag(<<"Q", "u", "e", "r", "y", "R", "e", "m", "o", "v", "e", "d">>) >>),
      JNull }

\* What a Transition holds as a version: a StateVersion, one whose ts is not
\* base64, one without identity, and null.
VersionJsons ==
    { StateVersionToJson(StateVersion(1, 0, <<1, 0, 0, 0>>)),
      JObj(<< <<<<"q", "u", "e", "r", "y", "S", "e", "t">>, JInt(1)>>, <<<<"i", "d", "e", "n", "t", "i", "t", "y">>, JInt(0)>>, <<<<"t", "s">>, JString(<<"x">>)>> >>),
      JObj(<< <<<<"q", "u", "e", "r", "y", "S", "e", "t">>, JInt(1)>>, <<<<"t", "s">>, JString(u64_to_string(<<1, 0, 0, 0>>))>> >>),
      JNull }

\* Transition documents with these versions and up to MaxLen of these entries.
TransitionListJsons ==
    { JObj(<< TypeTag(<<"T", "r", "a", "n", "s", "i", "t", "i", "o", "n">>), <<<<"s", "t", "a", "r", "t", "V", "e", "r", "s", "i", "o", "n">>, s>>, <<<<"e", "n", "d", "V", "e", "r", "s", "i", "o", "n">>, e>>,
              <<<<"m", "o", "d", "i", "f", "i", "c", "a", "t", "i", "o", "n", "s">>, JArray(es)>> >>) :
        s \in VersionJsons, e \in VersionJsons, es \in SeqsUpTo(TransitionEntries, MaxLen) }

\* Entries of a QueriesFailed's failures: a QueryFailure, and entries that do
\* not decode (without message, with a number among the log lines, null).
FailureEntries ==
    { JObj(<< <<<<"q", "u", "e", "r", "y", "I", "d">>, JInt(1)>>, <<<<"m", "e", "s", "s", "a", "g", "e">>, JString(<<"m">>)>>, <<<<"l", "o", "g", "L", "i", "n", "e", "s">>, JStrings(<<<<"l">>>>)>> >>),
      JObj(<< <<<<"q", "u", "e", "r", "y", "I", "d">>, JInt(1)>>, <<<<"l", "o", "g", "L", "i", "n", "e", "s">>, JStrings(<<>>)>> >>),
      JObj(<< <<<<"q", "u", "e", "r", "y", "I", "d">>, JInt(1)>>, <<<<"m", "e", "s", "s", "a", "g", "e">>, JString(<<"m">>)>>, <<<<"l", "o", "g", "L", "i", "n", "e", "s">>, JArray(<<JInt(1)>>)>> >>),
      JNull }

\* QueriesFailed documents with up to MaxLen of these entries.
QueriesFailedJsons ==
    { JObj(<< TypeTag(<<"Q", "u", "e", "r", "i", "e", "s", "F", "a", "i", "l", "e", "d">>), <<<<"f", "a", "i", "l", "u", "r", "e", "s">>, JArray(es)>> >>) :
        es \in SeqsUpTo(FailureEntries, MaxLen) }

\* The tokens of three words.
WordTexts == { u64_to_string(<<0, 0, 0, 0>>), u64_to_string(<<1, 0, 0, 0>>),
               u64_to_string(<<65535, 65535, 65535, 65535>>) }

\* The base64 of fewer and of more than 8 bytes.
ShortTexts == { B64Encode([i \in 1..n |-> 1]) : n \in {0, 1, 2, 3, 6, 7} }
LongTexts == { B64Encode([i \in 1..n |-> 1]) : n \in {9, 10, 12, 16} }

\* Strings that are not standard base64: the URL-safe alphabet, a symbol
\* outside the alphabet, a space after the token, padding inside the token,
\* too much padding, a lone symbol, bits after the last byte.
NotBase64Texts ==
    { <<"_", "_", "_", "_", "_", "_", "_", "_", "_", "_", "8", "=">>, <<"$", "A", "A", "A", "A", "A", "A", "A", "A", "A", "A", "=">>, <<"A", "A", "A", "A", "A", "A", "A", "A", "A", "A", "A", "=", " ">>, <<"A", "A", "A", "A", "=", "A", "A", "A", "A", "A", "A", "=">>, <<"A", "A", "A", "A", "A", "A", "A", "A", "A", "A", "A", "=", "=">>,
      <<"A", "A", "A", "A", "A", "A", "A", "A", "A", "A", "A", "A", "A">>, <<"A">>, <<"A", "A", "A", "A", "A", "A", "A", "A", "A", "A", "B", "=">> }

TokenTexts == WordTexts \cup ShortTexts \cup LongTexts \cup NotBase64Texts

\* Transition documents whose start version holds the token, and
\* MutationResponse documents whose ts is the token.
TokenJsons ==
    { JObj(<< TypeTag(<<"T", "r", "a", "n", "s", "i", "t", "i", "o", "n">>),
              <<<<"s", "t", "a", "r", "t", "V", "e", "r", "s", "i", "o", "n">>, JObj(<< <<<<"q", "u", "e", "r", "y", "S", "e", "t">>, JInt(0)>>, <<<<"i", "d", "e", "n", "t", "i", "t", "y">>, JInt(0)>>, <<<<"t", "s">>, JString(t)>> >>)>>,
              <<<<"e", "n", "d", "V", "e", "r", "s", "i", "o", "n">>, StateVersionToJson(StateVersion(1, 0, <<1, 0, 0, 0>>))>>,
              <<<<"m", "o", "d", "i", "f", "i", "c", "a", "t", "i", "o", "n", "s">>, JArray(<<>>)>> >>) : t \in TokenTexts }
    \cup { JObj(<< TypeTag(<<"M", "u", "t", "a", "t", "i", "o", "n", "R", "e", "s", "p", "o", "n", "s", "e">>), <<<<"r", "e", "q", "u", "e", "s", "t", "I", "d">>, JInt(1)>>, <<<<"s", "u", "c", "c", "e", "s", "s">>, JBool(TRUE)>>,
                   <<<<"r", "e", "s", "u", "l", "t">>, JNull>>, <<<<"l", "o", "g", "L", "i", "n", "e", "s">>, JStrings(<<>>)>>, <<<<"t", "s">>, JString(t)>> >>) :
             t \in TokenTexts }

ServerJsonInputs ==
    ResponseJsons \cup TransitionTagJsons \cup TransitionListJsons \cup QueriesFailedJsons
        \cup TokenJsons

\* Issuers and subjects, with and without the separator.
IdentityTexts == { <<>>, <<"a">>, <<"c">>, <<"a", "|", "b">>, <<"b", "|", "c">> }

\* Identity attributes documents without tokenIdentifier.
IdentityJsons ==
    { JObj(<< <<<<"i", "s", "s", "u", "e", "r">>, JString(i)>>, <<<<"s", "u", "b", "j", "e", "c", "t">>, JString(s)>> >>) :
        i \in IdentityTexts, s \in IdentityTexts }

\* Identity attributes documents: tokenIdentifier absent, null or a string,
\* issuer and subject each absent or set, and two of the other fields.
UIAJsonInputs ==
    { JObj(OptMember(<<"t", "o", "k", "e", "n", "I", "d", "e", "n", "t", "i", "f", "i", "e", "r">>, t) \o OptMember(<<"i", "s", "s", "u", "e", "r">>, i)
           \o OptMember(<<"s", "u", "b", "j", "e", "c", "t">>, s) \o OptMember(<<"n", "a", "m", "e">>, n)
           \o OptMember(<<"e", "m", "a", "i", "l", "V", "e", "r", "i", "f", "i", "e", "d">>, e)) :
        t \in { None, Some(JNull), Some(JString(<<>>)), Some(JString(<<"t">>)),
                Some(JString(<<"i", "|", "s">>)) },
        i \in { None, Some(JString(<<"i">>)) },
        s \in { None, Some(JString(<<"s">>)) },
        n \in { None, Some(JString(<<>>)), Some(JString(<<"n">>)) },
        e \in { None, Some(JBool(FALSE)) } }

\* 64-bit words whose bytes cover the patterns of base64's groups.
LimbValues == {0, 1, 255, 256, 65535}
U64Inputs == [1..4 -> LimbValues]

JTagged(key, j) == JObj(<< <<key, j>> >>)

\* Strings that are no token of 8 bytes: of 0, 7 and 9 bytes, with a symbol
\* outside the alphabet, with a lone symbol, with bits after the last byte.
MalformedTokens ==
    { <<>>,
      B64Encode(<<0, 0, 0, 0, 0, 0, 240>>),
      B64Encode(<<0, 0, 0, 0, 0, 0, 240, 63, 0>>),
      <<"$", "A", "A", "A", "A", "A", "A", "A", "8", "D", "8", "=">>,
      <<"A">>,
      <<"A", "A", "A", "A", "A", "A", "A", "A", "8", "D", "9", "=">> }

FloatTokens == {JsonFloatEncode(n) : n \in Floats} \cup MalformedTokens

JsonScalars ==
    { JNull, JBool(TRUE), JBool(FALSE), JInt(0), JInt(1), JInt(-1), JInt(3),
      JString(<<>>), JString(<<"a">>) }
    \cup {JFloat(n) : n \in {w \in Floats : classify(w) \notin {"Infinite", "Nan"}}}

JsonTagged ==
    {JTagged(K_float, JString(t)) : t \in FloatTokens}
    \cup {JTagged(K_integer, JString(t)) : t \in {JsonIntegerEncode(n) : n \in Int64s} \cup MalformedTokens}
    \cup {JTagged(K_bytes, JString(t)) : t \in {JsonBytesEncode(b) : b \in ByteStrings} \cup MalformedTokens}
    \cup {JTagged(K_id, JString(<<"a">>))}
    \cup {JTagged(k, j) : k \in ReservedTags, j \in {JNull, JInt(1), JObj(<<>>)}}

\* The elements of the composite JSON inputs: 1 and 1.0 decode to the same
\* Value, and the last one does not decode.
JsonElems ==
    { JNull, JInt(1), JFloat(OnePointZero), JFloat(MinSubnormal), JString(<<"a">>),
      JTagged(K_float, JString(JsonFloatEncode(QuietNaN))),
      JTagged(K_float, JString(JsonFloatEncode(OnePointZero))) }

JsonMembers == { JNull, JInt(1), JTagged(K_float, JString(JsonFloatEncode(OnePointZero))) }

JsonPairs == {JArray(<<k, v>>) : k \in JsonElems, v \in JsonMembers}

UnknownKeys == { <<"$", "a">>, <<"$">>, <<"$", "i", "d", "s">>, <<"$", "$", "i", "d">>, <<"a">> }

JsonComposites ==
    {JArray(a) : a \in SeqsUpTo(JsonElems, MaxLen)}
    \cup {JTagged(K_set, JArray(a)) : a \in SeqsUpTo(JsonElems, MaxLen)}
    \cup {JTagged(K_map, JArray(a)) : a \in SeqsUpTo(JsonPairs, MaxLen)}
    \cup {JTagged(K_map, JArray(<<a>>)) :
            a \in {JNull, JArray(<<JNull>>), JArray(<<JNull, JNull, JNull>>)}}
    \cup {JTagged(k, j) : k \in UnknownKeys, j \in JsonElems}
    \cup {JObject(o) : o \in MapsUpTo(UnknownKeys \cup {K_id, K_float}, JsonMembers, MaxLen)}

\* Composites that are nested once more.
JsonNestSeeds ==
    {JTagged(K_set, JArray(a)) : a \in [1..MaxLen -> JsonElems]}
    \cup {JTagged(K_map, JArray(<<p>>)) : p \in JsonPairs}
    \cup {JTagged(k, j) : k \in UnknownKeys, j \in JsonElems}

JsonNested ==
    UNION { { JArray(<<x>>), JTagged(K_set, JArray(<<x>>)), JTagged(<<"$", "a">>, x) } :
            x \in JsonNestSeeds }

JsonValueInputs == JsonScalars \cup JsonTagged \cup JsonComposites \cup JsonNested

----------------------------------------------------------------------------
(* The runs.                                                               *)

Start(f, d) ==
    /\ family = f
    /\ dir = d
    /\ pc = "start"
    /\ res = Unset
    /\ json2 = Unset
    /\ res2 = Unset

\* The family of the runs on ServerMessage<V>, and the V of a family.
ServerFamily(V) == IF V = "Value" THEN "server<Value>" ELSE "server<TestValue>"
PayloadType(f) == IF f = "server<Value>" THEN "Value" ELSE "TestValue"

Init ==
    \/ Start("u64", "enc") /\ val \in U64Inputs /\ json = Unset
    \/ Start("u64", "dec") /\ val = Unset /\ json \in TokenTexts
    \/ Start("value", "enc") /\ val \in ValueInputs /\ json = Unset
    \/ Start("value", "dec") /\ val = Unset /\ json \in JsonValueInputs
    \/ Start("uia", "enc") /\ val \in UIAInputs /\ json = Unset
    \/ Start("client", "enc") /\ val \in ClientInputs /\ json = Unset
    \/ \E V \in {"Value", "TestValue"} :
          Start(ServerFamily(V), "enc") /\ val \in ServerInputs(V) /\ json = Unset
    \/ Start("client", "dec") /\ val = Unset /\ json \in ClientJsonInputs
    \/ Start("uia", "dec") /\ val = Unset /\ json \in UIAJsonInputs
    \/ /\ family = "uia" /\ dir = "pair" /\ pc = "start"
       /\ val = Unset /\ res = Unset /\ res2 = Unset
       /\ json \in IdentityJsons /\ json2 \in IdentityJsons
    \/ \E V \in {"Value", "TestValue"} :
          Start(ServerFamily(V), "dec") /\ val = Unset /\ json \in ServerJsonInputs

\* u64_to_string on the input.
EncodeU64 ==
    /\ family = "u64" /\ dir = "enc" /\ pc = "start"
    /\ json' = u64_to_string(val)
    /\ pc' = "encoded"
    /\ UNCHANGED <<family, dir, val, res, json2, res2>>

\* string_to_u64 on the token.
DecodeU64 ==
    /\ family = "u64"
    /\ (dir = "enc" /\ pc = "encoded") \/ (dir = "dec" /\ pc = "start")
    /\ res' = string_to_u64(json)
    /\ pc' = "decoded"
    /\ UNCHANGED <<family, dir, val, json, json2, res2>>

\* JsonValue::from(value)
EncodeValue ==
    /\ family = "value" /\ dir = "enc" /\ pc = "start"
    /\ \E j \in ValueToJson(val) : json' = j
    /\ pc' = "encoded"
    /\ UNCHANGED <<family, dir, val, res, json2, res2>>

\* Value::try_from(json)
DecodeValue ==
    /\ family = "value"
    /\ (dir = "enc" /\ pc = "encoded") \/ (dir = "dec" /\ pc = "start")
    /\ res' = JsonToValue(json)
    /\ pc' = "decoded"
    /\ UNCHANGED <<family, dir, val, json, json2, res2>>

\* JsonValue::from of a decoded value.
ReencodeValue ==
    /\ family = "value" /\ dir = "dec" /\ pc = "decoded" /\ res.ok
    /\ \E j \in ValueToJson(res.v) : json2' = j
    /\ pc' = "reencoded"
    /\ UNCHANGED <<family, dir, val, json, res, res2>>

\* Value::try_from of a re-encoded value.
RedecodeValue ==
    /\ family = "value" /\ dir = "dec" /\ pc = "reencoded"
    /\ res2' = JsonToValue(json2)
    /\ pc' = "redecoded"
    /\ UNCHANGED <<family, dir, val, json, res, json2>>

\* JsonValue::try_from(attributes)
EncodeUIA ==
    /\ family = "uia" /\ dir = "enc" /\ pc = "start"
    /\ json' = UIAToJson(val)
    /\ pc' = "encoded"
    /\ UNCHANGED <<family, dir, val, res, json2, res2>>

\* UserIdentityAttributes::try_from(json)
DecodeUIA ==
    /\ family = "uia"
    /\ (dir = "enc" /\ pc = "encoded") \/ (dir = "dec" /\ pc = "start")
    /\ res' = JsonToUIA(json)
    /\ pc' = "decoded"
    /\ UNCHANGED <<family, dir, val, json, json2, res2>>

\* UserIdentityAttributes::try_from on each of two documents.
DecodeUIAPair ==
    /\ family = "uia" /\ dir = "pair" /\ pc = "start"
    /\ res' = JsonToUIA(json)
    /\ res2' = JsonToUIA(json2)
    /\ pc' = "decoded"
    /\ UNCHANGED <<family, dir, val, json, json2>>

\* JsonValue::try_from(message), when it succeeds.
EncodeClient ==
    /\ family = "client" /\ dir = "enc" /\ pc = "start"
    /\ ClientToJson(val).ok
    /\ json' = ClientToJson(val).v
    /\ pc' = "encoded"
    /\ UNCHANGED <<family, dir, val, res, json2, res2>>

\* ClientMessage::try_from(json)
DecodeClient ==
    /\ family = "client"
    /\ (dir = "enc" /\ pc = "encoded") \/ (dir = "dec" /\ pc = "start")
    /\ res' = JsonToClient(json)
    /\ pc' = "decoded"
    /\ UNCHANGED <<family, dir, val, json, json2, res2>>

\* JsonValue::from(message)
EncodeServer ==
    /\ family \in {"server<Value>", "server<TestValue>"} /\ dir = "enc" /\ pc = "start"
    /\ \E j \in ServerToJson(PayloadType(family), val) : json' = j
    /\ pc' = "encoded"
    /\ UNCHANGED <<family, dir, val, res, json2, res2>>

\* ServerMessage::<V>::try_from(json)
DecodeServer ==
    /\ family \in {"server<Value>", "server<TestValue>"}
    /\ (dir = "enc" /\ pc = "encoded") \/ (dir = "dec" /\ pc = "start")
    /\ res' = JsonToServer(PayloadType(family), json)
    /\ pc' = "decoded"
    /\ UNCHANGED <<family, dir, val, json, json2, res2>>

\* JsonValue::try_from of a decoded ClientMessage, when it succeeds.
ReencodeClient ==
    /\ family = "client" /\ dir = "dec" /\ pc = "decoded" /\ res.ok
    /\ ClientToJson(res.v).ok
    /\ json2' = ClientToJson(res.v).v
    /\ pc' = "reencoded"
    /\ UNCHANGED <<family, dir, val, json, res, res2>>

Next ==
    \/ ReencodeClient
    \/ EncodeUIA
    \/ DecodeUIA
    \/ DecodeUIAPair
    \/ EncodeClient
    \/ DecodeClient
    \/ EncodeServer
    \/ DecodeServer
    \/ EncodeU64
    \/ DecodeU64
    \/ EncodeValue
    \/ DecodeValue
    \/ ReencodeValue
    \/ RedecodeValue

Spec == Init /\ [][Next]_vars

----------------------------------------------------------------------------
(* The claims.                                                             *)

\* C1: for every Value v, decoding the JSON encoding of v succeeds and
\* yields a value equal to v, Float64 compared by its bits.
C1_ValueRoundTrips ==
    (family = "value" /\ dir = "enc" /\ pc = "decoded") => res = Ok(val)

C1_Witness ==
    /\ family = "value" /\ dir = "enc" /\ pc = "decoded"
    /\ val = VMap(VSet({VFloat64(QuietNaN), VFloat64(NegativeZero)}) :> VNull)
    /\ res = Ok(val)

\* C2: every well-formed ClientMessage encodes, and the decoding of its
\* encoding is the message.
C2_ClientMessageRoundTrips ==
    family = "client" /\ dir = "enc" =>
        /\ ClientToJson(val).ok
        /\ pc = "decoded" => res = Ok(val)

\* A ModifyQuerySet that adds a query whose journal is present and null has
\* round-tripped.
C2_Witness ==
    /\ family = "client" /\ dir = "enc" /\ pc = "decoded"
    /\ TagOf(val) = "ModifyQuerySet"
    /\ \E i \in DOMAIN Val(val).modifications :
          /\ TagOf(Val(val).modifications[i]) = "Add"
          /\ Val(Val(val).modifications[i]).journal = Some(None)
    /\ res = Ok(val)

\* C3: the decoding of the encoding of a ServerMessage<V> is the message, for
\* V a Value and for V a JSON passthrough.
C3_ServerMessageRoundTrips ==
    family \in {"server<Value>", "server<TestValue>"} /\ dir = "enc" /\ pc = "decoded" =>
        res = Ok(val)

\* A MutationResponse with an Err result and no ts has round-tripped.
C3_Witness ==
    /\ family = "server<TestValue>" /\ dir = "enc" /\ pc = "decoded"
    /\ TagOf(val) = "MutationResponse"
    /\ ~Val(val).result.ok
    /\ ~Val(val).ts.some
    /\ res = Ok(val)

\* C4: the decoding of the encoding of a UserIdentityAttributes is the record.
C4_UIARoundTrips ==
    family = "uia" /\ dir = "enc" /\ pc = "decoded" => res = Ok(val)

\* A record whose token_identifier is not "<issuer>|<subject>" of its issuer
\* and subject has round-tripped.
C4_Witness ==
    /\ family = "uia" /\ dir = "enc" /\ pc = "decoded"
    /\ val.attrs[F_issuer].some /\ val.attrs[F_subject].some
    /\ val.token_identifier
          # UserIdentifierConstruct(val.attrs[F_issuer].x, val.attrs[F_subject].x)
    /\ res = Ok(val)

\* C5: for every 64-bit unsigned x, string_to_u64(u64_to_string(x)) is Ok(x).
C5_U64RoundTrips ==
    (family = "u64" /\ dir = "enc" /\ pc = "decoded") => res = Ok(val)

C5_Witness ==
    /\ family = "u64" /\ dir = "enc" /\ pc = "decoded"
    /\ val = <<65535, 256, 1, 255>>
    /\ json = <<"/", "/", "8", "A", "A", "Q", "E", "A", "/", "w", "A", "=">>
    /\ res = Ok(val)

\* The doubles that are NaN, +infinity, -infinity or -0, among the inputs.
SpecialFloats ==
    { QuietNaN, PayloadNaN, NegativeNaN, PositiveInfinity, NegativeInfinity, NegativeZero }

IsFloatObject(j) ==
    IsJObject(j) /\ DOMAIN Val(j) = {K_float} /\ IsJString(Val(j)[K_float])

\* C6: the encoding of Float64(n) is a bare JSON number iff n is neither NaN,
\* +infinity, -infinity nor -0, and in exactly those cases it is the one-key
\* object {"$float": <token>}.
C6_BareNumberIffNotSpecial ==
    (family = "value" /\ dir = "enc" /\ pc # "start" /\ TagOf(val) = "Float64") =>
        /\ TagOf(json) = "Number" <=> Val(val) \notin SpecialFloats
        /\ IsFloatObject(json) <=> Val(val) \in SpecialFloats

C6_Witness ==
    /\ family = "value" /\ dir = "enc" /\ pc = "encoded"
    /\ val = VFloat64(NegativeZero)
    /\ json = JObject(K_float :> JString(<<"A", "A", "A", "A", "A", "A", "A", "A", "A", "I", "A", "=">>))

\* C7: decoding {"$float": token} succeeds only when the decoded double is
\* NaN, +infinity, -infinity or -0, and fails for every other double (+0
\* included).
C7_FloatObjectOnlyForSpecial ==
    (/\ family = "value" /\ dir = "dec" /\ pc = "decoded"
     /\ IsFloatObject(json)
     /\ JsonFloatDecode(Val(Val(json)[K_float])).ok) =>
        (res.ok <=> JsonFloatDecode(Val(Val(json)[K_float])).v \in SpecialFloats)

\* The elements of a {"$set": [...]} document, decoded one by one.
SetItemResults(j) == [i \in DOMAIN Val(Val(j)[K_set]) |-> JsonToValue(Val(Val(j)[K_set])[i])]

IsSetDocument(j) ==
    IsJObject(j) /\ DOMAIN Val(j) = {K_set} /\ IsJArray(Val(j)[K_set])

\* C8: decoding {"$set": [...]} fails whenever two elements decode to equal
\* Values, and when all elements decode and no two are equal it yields the
\* Set of exactly the decoded elements.
C8_SetRejectsDuplicates ==
    (family = "value" /\ dir = "dec" /\ pc = "decoded" /\ IsSetDocument(json)) =>
        LET d == SetItemResults(json)
            repeated == \E i, j \in DOMAIN d : i < j /\ d[i].ok /\ d[j].ok /\ d[i].v = d[j].v
        IN  /\ repeated => ~res.ok
            /\ (~repeated /\ \A i \in DOMAIN d : d[i].ok) =>
                    res = Ok(VSet({d[i].v : i \in DOMAIN d}))

C8_Witness ==
    /\ family = "value" /\ dir = "dec" /\ pc = "decoded"
    /\ json = JTagged(K_set, JArray(<<JInt(1), JFloat(OnePointZero)>>))
    /\ ~res.ok

IsMapDocument(j) ==
    IsJObject(j) /\ DOMAIN Val(j) = {K_map} /\ FromValuePairs(Val(j)[K_map]).ok

\* C9: decoding {"$map": [[k, v], ...]} fails whenever two entries have keys
\* that decode to equal Values, whatever their values are.
C9_MapRejectsDuplicateKeys ==
    (family = "value" /\ dir = "dec" /\ pc = "decoded" /\ IsMapDocument(json)) =>
        LET e == FromValuePairs(Val(json)[K_map]).v
            k == [i \in DOMAIN e |-> JsonToValue(e[i][1])]
        IN  (\E i, j \in DOMAIN e : i < j /\ k[i].ok /\ k[j].ok /\ k[i].v = k[j].v) => ~res.ok

C9_Witness ==
    /\ family = "value" /\ dir = "dec" /\ pc = "decoded"
    /\ json = JTagged(K_map, JArray(<< JArray(<<JInt(1), JNull>>),
                                       JArray(<<JFloat(OnePointZero), JInt(1)>>) >>))
    /\ ~res.ok

\* The key of a one-key JSON object.
OnlyKey(j) == CHOOSE k \in DOMAIN Val(j) : TRUE

IsUnknownDollarObject(j) ==
    /\ IsJObject(j) /\ Cardinality(DOMAIN Val(j)) = 1
    /\ Len(OnlyKey(j)) > 0 /\ OnlyKey(j)[1] = "$"
    /\ OnlyKey(j) \notin ReservedTags

\* C10: a JSON object with exactly one key that begins with "$" and is no
\* reserved tag decodes to the Object whose one field has exactly that key
\* as its name and the decoded member as its value, and that Object decodes
\* from its own encoding to itself.
C10_UnknownTagIsObject ==
    (/\ family = "value" /\ dir = "dec" /\ pc \in {"decoded", "reencoded", "redecoded"}
     /\ IsUnknownDollarObject(json)
     /\ JsonToValue(Val(json)[OnlyKey(json)]).ok) =>
        /\ res = Ok(VObject(OnlyKey(json) :> JsonToValue(Val(json)[OnlyKey(json)]).v))
        /\ pc = "redecoded" => res2 = res

C10_Witness ==
    /\ family = "value" /\ dir = "dec" /\ pc = "redecoded"
    /\ json = JTagged(<<"$", "i", "d", "s">>, JTagged(K_float, JString(JsonFloatEncode(QuietNaN))))
    /\ res = Ok(VObject(<<"$", "i", "d", "s">> :> VFloat64(QuietNaN)))
    /\ res2 = res

\* Whether the document holds a u32 under the key, and that number.
HoldsId(j, k) == HasKey(j, k) /\ IsJU32(Val(j)[k])
IdAt(j, k) == Val(Val(j)[k])[2]

\* The legacy id key of a request or response document.
LegacyKeyOf(j) ==
    IF Val(j)[K_type] \in {JString(<<"M", "u", "t", "a", "t", "i", "o", "n">>), JString(<<"M", "u", "t", "a", "t", "i", "o", "n", "R", "e", "s", "p", "o", "n", "s", "e">>)}
    THEN <<"m", "u", "t", "a", "t", "i", "o", "n", "I", "d">> ELSE <<"a", "c", "t", "i", "o", "n", "I", "d">>

\* Whether success and result of a response document agree, for payload type V.
ResultAgrees(V, j) ==
    IF Val(j)[<<"s", "u", "c", "c", "e", "s", "s">>] = JBool(TRUE) THEN VFromJson(V, Val(j)[<<"r", "e", "s", "u", "l", "t">>]).ok
    ELSE IsJString(Val(j)[<<"r", "e", "s", "u", "l", "t">>])

\* A decoded Mutation, Action, MutationResponse or ActionResponse document whose
\* other fields are well formed.
IsDecodedRequest ==
    /\ dir = "dec" /\ pc = "decoded"
    /\ \/ family = "client" /\ json \in RequestJsons
       \/ /\ family \in {"server<Value>", "server<TestValue>"}
          /\ json \in ResponseJsons
          /\ ResultAgrees(PayloadType(family), json)

\* C11: a requestId that holds a number becomes request_id, whatever the legacy
\* id; without it the legacy id is used; with neither the decode fails.
C11_RequestIdPrecedence ==
    IsDecodedRequest =>
        IF HoldsId(json, <<"r", "e", "q", "u", "e", "s", "t", "I", "d">>)
        THEN res.ok /\ Val(res.v).request_id = IdAt(json, <<"r", "e", "q", "u", "e", "s", "t", "I", "d">>)
        ELSE IF HoldsId(json, LegacyKeyOf(json))
        THEN res.ok /\ Val(res.v).request_id = IdAt(json, LegacyKeyOf(json))
        ELSE ~res.ok

\* A Mutation with requestId 1 and mutationId 2 has decoded, to request_id 1.
C11_Witness ==
    /\ IsDecodedRequest /\ family = "client"
    /\ HoldsId(json, <<"r", "e", "q", "u", "e", "s", "t", "I", "d">>) /\ HoldsId(json, <<"m", "u", "t", "a", "t", "i", "o", "n", "I", "d">>)
    /\ IdAt(json, <<"r", "e", "q", "u", "e", "s", "t", "I", "d">>) = 1 /\ IdAt(json, <<"m", "u", "t", "a", "t", "i", "o", "n", "I", "d">>) = 2
    /\ res.ok /\ Val(res.v).request_id = 1

\* The legacy id key of a typed request or response.
LegacyKeyFor(m) ==
    IF TagOf(m) \in {"Mutation", "MutationResponse"} THEN <<"m", "u", "t", "a", "t", "i", "o", "n", "I", "d">> ELSE <<"a", "c", "t", "i", "o", "n", "I", "d">>

\* An encoded Mutation, Action, MutationResponse or ActionResponse.
IsEncodedRequest ==
    /\ family \in {"client", "server<Value>", "server<TestValue>"}
    /\ dir = "enc" /\ pc \in {"encoded", "decoded"}
    /\ TagOf(val) \in {"Mutation", "Action", "MutationResponse", "ActionResponse"}

\* C12: the encoding of a request or a response holds requestId and the
\* matching legacy key, both with the number of request_id.
C12_BothIdsEmitted ==
    IsEncodedRequest =>
        /\ HoldsId(json, <<"r", "e", "q", "u", "e", "s", "t", "I", "d">>) /\ IdAt(json, <<"r", "e", "q", "u", "e", "s", "t", "I", "d">>) = Val(val).request_id
        /\ HoldsId(json, LegacyKeyFor(val)) /\ IdAt(json, LegacyKeyFor(val)) = Val(val).request_id
        /\ DOMAIN Val(json) \cap {<<"m", "u", "t", "a", "t", "i", "o", "n", "I", "d">>, <<"a", "c", "t", "i", "o", "n", "I", "d">>} = {LegacyKeyFor(val)}

\* A Mutation with request_id 7 is encoded with requestId 7 and mutationId 7.
C12_Witness ==
    /\ IsEncodedRequest /\ TagOf(val) = "Mutation" /\ Val(val).request_id = 7
    /\ Val(json)[<<"r", "e", "q", "u", "e", "s", "t", "I", "d">>] = JInt(7) /\ Val(json)[<<"m", "u", "t", "a", "t", "i", "o", "n", "I", "d">>] = JInt(7)

\* An encoded Authenticate message with an Admin token.
IsEncodedAdmin ==
    /\ family = "client" /\ dir = "enc" /\ pc \in {"encoded", "decoded"}
    /\ TagOf(val) = "Authenticate" /\ TagOf(Val(val).token) = "Admin"

\* C13: an Admin token is encoded flat, with tokenType "Admin" and value, the
\* attributes under actingAs exactly when acting_as is Some, and never a key
\* impersonating; the legacy Admin document re-encodes to itself.
C13_AdminEncoding ==
    /\ IsEncodedAdmin =>
          /\ Val(json)[K_tokenType] = JString(<<"A", "d", "m", "i", "n">>)
          /\ Val(json)[K_value] = JString(Val(Val(val).token).value)
          /\ <<"i", "m", "p", "e", "r", "s", "o", "n", "a", "t", "i", "n", "g">> \notin DOMAIN Val(json)
          /\ IF Val(Val(val).token).acting_as.some
             THEN /\ HasKey(json, <<"a", "c", "t", "i", "n", "g", "A", "s">>)
                  /\ Val(json)[<<"a", "c", "t", "i", "n", "g", "A", "s">>] = UIAToJson(Val(Val(val).token).acting_as.x)
             ELSE DOMAIN Val(json) \cap ActingAsKeys = {}
    /\ family = "client" /\ dir = "dec" /\ json \in LegacyAuthJsons =>
          /\ pc = "decoded" => res.ok
          /\ pc = "reencoded" => json2 = json

\* C14: the attributes of an Admin document decode to Some, under whichever of
\* impersonating and actingAs they are carried.
C14_ActingAsEitherKey ==
    /\ family = "client" /\ dir = "dec" /\ pc = "decoded"
    /\ json \in AdminActingJsons
    /\ \E k \in {<<"i", "m", "p", "e", "r", "s", "o", "n", "a", "t", "i", "n", "g">>, <<"a", "c", "t", "i", "n", "g", "A", "s">>} : HasKey(json, k)
    => LET k == CHOOSE x \in {<<"i", "m", "p", "e", "r", "s", "o", "n", "a", "t", "i", "n", "g">>, <<"a", "c", "t", "i", "n", "g", "A", "s">>} : HasKey(json, x)
       IN  /\ res.ok
           /\ Val(res.v).token
                = <<"Admin", [value |-> <<"k">>, acting_as |-> Some(JsonToUIA(Val(json)[k]).v)]>>

\* A decoded Connect document whose session id is the hyphenated text.
IsDecodedConnect ==
    /\ family = "client" /\ dir = "dec" /\ pc = "decoded"
    /\ json \in ConnectJsons
    /\ Val(json)[<<"s", "e", "s", "s", "i", "o", "n", "I", "d">>] = JString(UuidHyphenated(SessionDigits))

\* C15: a Connect document without lastCloseReason decodes with the reason
\* "unknown", one with a string decodes with that string, and every encoded
\* Connect holds lastCloseReason.
C15_LastCloseReasonDefault ==
    /\ IsDecodedConnect /\ ~HasKey(json, <<"l", "a", "s", "t", "C", "l", "o", "s", "e", "R", "e", "a", "s", "o", "n">>) =>
          res.ok /\ Val(res.v).last_close_reason = <<"u", "n", "k", "n", "o", "w", "n">>
    /\ IsDecodedConnect /\ HasKey(json, <<"l", "a", "s", "t", "C", "l", "o", "s", "e", "R", "e", "a", "s", "o", "n">>)
          /\ IsJString(Val(json)[<<"l", "a", "s", "t", "C", "l", "o", "s", "e", "R", "e", "a", "s", "o", "n">>]) =>
          res.ok /\ Val(res.v).last_close_reason = Val(Val(json)[<<"l", "a", "s", "t", "C", "l", "o", "s", "e", "R", "e", "a", "s", "o", "n">>])
    /\ family = "client" /\ dir = "enc" /\ pc \in {"encoded", "decoded"}
          /\ TagOf(val) = "Connect" =>
          /\ HasKey(json, <<"l", "a", "s", "t", "C", "l", "o", "s", "e", "R", "e", "a", "s", "o", "n">>)
          /\ Val(json)[<<"l", "a", "s", "t", "C", "l", "o", "s", "e", "R", "e", "a", "s", "o", "n">>] = JString(Val(val).last_close_reason)

\* A Connect document without lastCloseReason has decoded, with "unknown".
C15_Witness ==
    /\ IsDecodedConnect /\ ~HasKey(json, <<"l", "a", "s", "t", "C", "l", "o", "s", "e", "R", "e", "a", "s", "o", "n">>)
    /\ res.ok /\ Val(res.v).last_close_reason = <<"u", "n", "k", "n", "o", "w", "n">>

\* The optional fields the identity attributes documents may hold, each with
\* its key.
DocumentFields ==
    { <<<<"i", "s", "s", "u", "e", "r">>, <<"i", "s", "s", "u", "e", "r">>>>, <<<<"s", "u", "b", "j", "e", "c", "t">>, <<"s", "u", "b", "j", "e", "c", "t">>>>, <<<<"n", "a", "m", "e">>, <<"n", "a", "m", "e">>>>,
      <<<<"e", "m", "a", "i", "l", "_", "v", "e", "r", "i", "f", "i", "e", "d">>, <<"e", "m", "a", "i", "l", "V", "e", "r", "i", "f", "i", "e", "d">>>> }

\* Whether the document holds a string under the key.
HoldsString(j, k) == HasKey(j, k) /\ IsJString(Val(j)[k])

\* The token_identifier the document stands for: its tokenIdentifier, else
\* "<issuer>|<subject>", else none.
ExpectedIdentifier(j) ==
    IF HoldsString(j, <<"t", "o", "k", "e", "n", "I", "d", "e", "n", "t", "i", "f", "i", "e", "r">>) THEN Some(Val(Val(j)[<<"t", "o", "k", "e", "n", "I", "d", "e", "n", "t", "i", "f", "i", "e", "r">>]))
    ELSE IF HasKey(j, <<"i", "s", "s", "u", "e", "r">>) /\ HasKey(j, <<"s", "u", "b", "j", "e", "c", "t">>)
    THEN Some(Val(Val(j)[<<"i", "s", "s", "u", "e", "r">>]) \o <<"|">> \o Val(Val(j)[<<"s", "u", "b", "j", "e", "c", "t">>]))
    ELSE None

\* C16: a tokenIdentifier is used unchanged; without it the identifier is
\* "<issuer>|<subject>" when both are set, and else the decode fails; the
\* other fields are copied, an absent one as None.
C16_TokenIdentifierDerivation ==
    family = "uia" /\ dir = "dec" /\ pc = "decoded" =>
        IF ExpectedIdentifier(json).some
        THEN /\ res.ok
             /\ res.v.token_identifier = ExpectedIdentifier(json).x
             /\ \A d \in DocumentFields :
                   res.v.attrs[d[1]] = IF HasKey(json, d[2]) THEN Some(Val(Val(json)[d[2]]))
                                       ELSE None
             /\ \A f \in UIAFields \ {d[1] : d \in DocumentFields} : res.v.attrs[f] = None
        ELSE ~res.ok

\* A document with tokenIdentifier "t", issuer "i" and subject "s" has decoded
\* with the identifier "t".
C16_Witness ==
    /\ family = "uia" /\ dir = "dec" /\ pc = "decoded"
    /\ HoldsString(json, <<"t", "o", "k", "e", "n", "I", "d", "e", "n", "t", "i", "f", "i", "e", "r">>) /\ HasKey(json, <<"i", "s", "s", "u", "e", "r">>) /\ HasKey(json, <<"s", "u", "b", "j", "e", "c", "t">>)
    /\ res.ok /\ res.v.token_identifier = <<"t">>
    /\ res.v.token_identifier # <<"i", "|", "s">>

\* The optional fields of UserIdentityAttributes, each with its key on the wire.
WireKeys ==
    { <<<<"i", "s", "s", "u", "e", "r">>, <<"i", "s", "s", "u", "e", "r">>>>,
      <<<<"s", "u", "b", "j", "e", "c", "t">>, <<"s", "u", "b", "j", "e", "c", "t">>>>,
      <<<<"n", "a", "m", "e">>, <<"n", "a", "m", "e">>>>,
      <<<<"g", "i", "v", "e", "n", "_", "n", "a", "m", "e">>, <<"g", "i", "v", "e", "n", "N", "a", "m", "e">>>>,
      <<<<"f", "a", "m", "i", "l", "y", "_", "n", "a", "m", "e">>, <<"f", "a", "m", "i", "l", "y", "N", "a", "m", "e">>>>,
      <<<<"n", "i", "c", "k", "n", "a", "m", "e">>, <<"n", "i", "c", "k", "n", "a", "m", "e">>>>,
      <<<<"p", "r", "e", "f", "e", "r", "r", "e", "d", "_", "u", "s", "e", "r", "n", "a", "m", "e">>, <<"p", "r", "e", "f", "e", "r", "r", "e", "d", "U", "s", "e", "r", "n", "a", "m", "e">>>>,
      <<<<"p", "r", "o", "f", "i", "l", "e", "_", "u", "r", "l">>, <<"p", "r", "o", "f", "i", "l", "e", "U", "r", "l">>>>,
      <<<<"p", "i", "c", "t", "u", "r", "e", "_", "u", "r", "l">>, <<"p", "i", "c", "t", "u", "r", "e", "U", "r", "l">>>>,
      <<<<"w", "e", "b", "s", "i", "t", "e", "_", "u", "r", "l">>, <<"w", "e", "b", "s", "i", "t", "e", "U", "r", "l">>>>,
      <<<<"e", "m", "a", "i", "l">>, <<"e", "m", "a", "i", "l">>>>,
      <<<<"e", "m", "a", "i", "l", "_", "v", "e", "r", "i", "f", "i", "e", "d">>, <<"e", "m", "a", "i", "l", "V", "e", "r", "i", "f", "i", "e", "d">>>>,
      <<<<"g", "e", "n", "d", "e", "r">>, <<"g", "e", "n", "d", "e", "r">>>>,
      <<<<"b", "i", "r", "t", "h", "d", "a", "y">>, <<"b", "i", "r", "t", "h", "d", "a", "y">>>>,
      <<<<"t", "i", "m", "e", "z", "o", "n", "e">>, <<"t", "i", "m", "e", "z", "o", "n", "e">>>>,
      <<<<"l", "a", "n", "g", "u", "a", "g", "e">>, <<"l", "a", "n", "g", "u", "a", "g", "e">>>>,
      <<<<"p", "h", "o", "n", "e", "_", "n", "u", "m", "b", "e", "r">>, <<"p", "h", "o", "n", "e", "N", "u", "m", "b", "e", "r">>>>,
      <<<<"p", "h", "o", "n", "e", "_", "n", "u", "m", "b", "e", "r", "_", "v", "e", "r", "i", "f", "i", "e", "d">>, <<"p", "h", "o", "n", "e", "N", "u", "m", "b", "e", "r", "V", "e", "r", "i", "f", "i", "e", "d">>>>,
      <<<<"a", "d", "d", "r", "e", "s", "s">>, <<"a", "d", "d", "r", "e", "s", "s">>>>,
      <<<<"u", "p", "d", "a", "t", "e", "d", "_", "a", "t">>, <<"u", "p", "d", "a", "t", "e", "d", "A", "t">>>> }

\* The JSON of the value of a field that is Some: a bool for the two verified
\* flags, else a string.
FieldJson(f, x) ==
    IF f \in {<<"e", "m", "a", "i", "l", "_", "v", "e", "r", "i", "f", "i", "e", "d">>, <<"p", "h", "o", "n", "e", "_", "n", "u", "m", "b", "e", "r", "_", "v", "e", "r", "i", "f", "i", "e", "d">>} THEN JBool(x) ELSE JString(x)

\* C17: the encoding of a UserIdentityAttributes holds tokenIdentifier with the
\* token_identifier, the key of every field that is Some with its value, and
\* no other key: a None field is not written at all.
C17_EncodingOmitsNone ==
    family = "uia" /\ dir = "enc" /\ pc \in {"encoded", "decoded"} =>
        /\ IsJObject(json)
        /\ DOMAIN Val(json)
              = {<<"t", "o", "k", "e", "n", "I", "d", "e", "n", "t", "i", "f", "i", "e", "r">>} \cup {w[2] : w \in {x \in WireKeys : val.attrs[x[1]].some}}
        /\ Val(json)[<<"t", "o", "k", "e", "n", "I", "d", "e", "n", "t", "i", "f", "i", "e", "r">>] = JString(val.token_identifier)
        /\ \A w \in WireKeys :
              val.attrs[w[1]].some => Val(json)[w[2]] = FieldJson(w[1], val.attrs[w[1]].x)

\* A record with given_name and phone_number_verified set and issuer None is
\* encoded with givenName and phoneNumberVerified and without issuer.
C17_Witness ==
    /\ family = "uia" /\ dir = "enc" /\ pc = "encoded"
    /\ val.attrs[<<"g", "i", "v", "e", "n", "_", "n", "a", "m", "e">>].some /\ val.attrs[<<"p", "h", "o", "n", "e", "_", "n", "u", "m", "b", "e", "r", "_", "v", "e", "r", "i", "f", "i", "e", "d">>].some
    /\ ~val.attrs[<<"i", "s", "s", "u", "e", "r">>].some
    /\ HasKey(json, <<"g", "i", "v", "e", "n", "N", "a", "m", "e">>) /\ HasKey(json, <<"p", "h", "o", "n", "e", "N", "u", "m", "b", "e", "r", "V", "e", "r", "i", "f", "i", "e", "d">>)
    /\ ~HasKey(json, <<"i", "s", "s", "u", "e", "r">>)

\* The variants of StateModification, each with its name as written and in
\* camelCase.
VariantNames ==
    { <<"QueryUpdated", <<"Q", "u", "e", "r", "y", "U", "p", "d", "a", "t", "e", "d">>, <<"q", "u", "e", "r", "y", "U", "p", "d", "a", "t", "e", "d">>>>,
      <<"QueryFailed", <<"Q", "u", "e", "r", "y", "F", "a", "i", "l", "e", "d">>, <<"q", "u", "e", "r", "y", "F", "a", "i", "l", "e", "d">>>>,
      <<"QueryRemoved", <<"Q", "u", "e", "r", "y", "R", "e", "m", "o", "v", "e", "d">>, <<"q", "u", "e", "r", "y", "R", "e", "m", "o", "v", "e", "d">>>> }

\* The modifications of an encoded Transition, and the tag of the modification
\* of a Transition document.
EncodedModifications == Val(Val(json)[<<"m", "o", "d", "i", "f", "i", "c", "a", "t", "i", "o", "n", "s">>])
DocumentTag == Val(Val(EncodedModifications[1])[K_type])

IsEncodedTransition ==
    /\ family \in {"server<Value>", "server<TestValue>"} /\ dir = "enc"
    /\ pc \in {"encoded", "decoded"} /\ TagOf(val) = "Transition"

IsDecodedTransition ==
    /\ family \in {"server<Value>", "server<TestValue>"} /\ dir = "dec"
    /\ pc = "decoded" /\ json \in TransitionTagJsons

\* C18 as stated: the tag of an encoded StateModification is the camelCase
\* name of its variant, and the decoder accepts exactly these tags.
C18_CamelCaseTags ==
    /\ IsEncodedTransition =>
          \A i \in DOMAIN Val(val).modifications : \E n \in VariantNames :
              /\ n[1] = TagOf(Val(val).modifications[i])
              /\ Val(EncodedModifications[i])[K_type] = JString(n[3])
    /\ IsDecodedTransition => (res.ok <=> \E n \in VariantNames : DocumentTag = n[3])

\* C18, amended: the tag of an encoded StateModification is the name of its
\* variant as written, QueryUpdated, QueryFailed or QueryRemoved, and the
\* decoder accepts exactly these tags, each as its variant.
C18_VariantNameTags ==
    /\ IsEncodedTransition =>
          \A i \in DOMAIN Val(val).modifications : \E n \in VariantNames :
              /\ n[1] = TagOf(Val(val).modifications[i])
              /\ Val(EncodedModifications[i])[K_type] = JString(n[2])
    /\ IsDecodedTransition =>
          /\ res.ok <=> \E n \in VariantNames : DocumentTag = n[2]
          /\ res.ok => \E n \in VariantNames :
                          /\ DocumentTag = n[2]
                          /\ TagOf(Val(res.v).modifications[1]) = n[1]

\* A Transition document whose modification is tagged QueryFailed has decoded,
\* to a QueryFailed.
C18_Witness ==
    /\ IsDecodedTransition /\ DocumentTag = <<"Q", "u", "e", "r", "y", "F", "a", "i", "l", "e", "d">>
    /\ res.ok /\ TagOf(Val(res.v).modifications[1]) = "QueryFailed"

\* The hexadecimal digits, of either case.
HexChars ==
    { "0", "1", "2", "3", "4", "5", "6", "7", "8", "9",
      "a", "b", "c", "d", "e", "f", "A", "B", "C", "D", "E", "F" }

\* The form xxxxxxxx-xxxx-xxxx-xxxx-xxxxxxxxxxxx, and 32 digits without hyphens.
IsHyphenatedText(s) ==
    /\ Len(s) = 36
    /\ \A i \in 1..36 : IF i \in {9, 14, 19, 24} THEN s[i] = "-" ELSE s[i] \in HexChars
IsSimpleText(s) == Len(s) = 32 /\ \A i \in 1..32 : s[i] \in HexChars

\* The textual forms of a UUID: hyphenated, simple, braced and URN.
IsUuidText(s) ==
    \/ IsHyphenatedText(s)
    \/ IsSimpleText(s)
    \/ Len(s) = 38 /\ s[1] = "{" /\ s[38] = "}" /\ IsHyphenatedText(SubSeq(s, 2, 37))
    \/ Len(s) = 45 /\ SubSeq(s, 1, 9) = <<"u", "r", "n", ":", "u", "u", "i", "d", ":">> /\ IsHyphenatedText(SubSeq(s, 10, 45))

\* The text under sessionId of the document or encoding.
SessionIdText == Val(Val(json)[<<"s", "e", "s", "s", "i", "o", "n", "I", "d">>])

IsDecodedAnyConnect ==
    family = "client" /\ dir = "dec" /\ pc = "decoded" /\ json \in ConnectJsons

\* Every encoded Connect holds its session id hyphenated, in lower case.
EncoderEmitsHyphenated ==
    family = "client" /\ dir = "enc" /\ pc \in {"encoded", "decoded"} /\ TagOf(val) = "Connect" =>
        /\ IsHyphenatedText(SessionIdText)
        /\ \A i \in 1..36 : SessionIdText[i] \notin {"A", "B", "C", "D", "E", "F"}

\* C19 as stated: a Connect document decodes exactly when its sessionId is in
\* the hyphenated form, and the encoder emits that form.
C19_OnlyHyphenatedAccepted ==
    /\ IsDecodedAnyConnect => (res.ok <=> IsHyphenatedText(SessionIdText))
    /\ EncoderEmitsHyphenated

\* C19, amended: a Connect document decodes exactly when its sessionId is a
\* textual form of a UUID: hyphenated, or 32 digits without hyphens, braced or
\* URN; it then decodes to the session id of those digits; the encoder emits
\* the hyphenated form.
C19_UuidTextsAccepted ==
    /\ IsDecodedAnyConnect =>
          /\ res.ok <=> IsUuidText(SessionIdText)
          /\ res.ok => Val(res.v).session_id = SessionDigits
    /\ EncoderEmitsHyphenated

\* A Connect document with 32 digits without hyphens has decoded.
C19_Witness ==
    /\ IsDecodedAnyConnect /\ IsSimpleText(SessionIdText)
    /\ res.ok /\ Val(res.v).session_id = SessionDigits

IsServerRun == family \in {"server<Value>", "server<TestValue>"}

\* An encoded MutationResponse or ActionResponse.
IsEncodedResponse ==
    /\ IsServerRun /\ dir = "enc" /\ pc \in {"encoded", "decoded"}
    /\ TagOf(val) \in {"MutationResponse", "ActionResponse"}

\* A decoded MutationResponse or ActionResponse document that holds an id.
IsDecodedResponse ==
    /\ IsServerRun /\ dir = "dec" /\ pc = "decoded" /\ json \in ResponseJsons
    /\ HoldsId(json, <<"r", "e", "q", "u", "e", "s", "t", "I", "d">>) \/ HoldsId(json, LegacyKeyOf(json))

\* What the document or encoding holds under success and under result.
SuccessOf(j) == Val(j)[<<"s", "u", "c", "c", "e", "s", "s">>]
ResultOf(j) == Val(j)[<<"r", "e", "s", "u", "l", "t">>]

\* C20: an encoded Ok(v) holds success true and the encoding of v, an encoded
\* Err(s) holds success false and the string s; a document with success true
\* decodes to Ok of its result read as a value and fails when that fails, a
\* document with success false decodes to Err(s) when its result is the string s
\* and fails otherwise.
C20_SuccessAgreesWithResult ==
    /\ IsEncodedResponse =>
          IF Val(val).result.ok
          THEN /\ SuccessOf(json) = JBool(TRUE)
               /\ ResultOf(json) \in VToJson(PayloadType(family), Val(val).result.v)
          ELSE /\ SuccessOf(json) = JBool(FALSE)
               /\ ResultOf(json) = JString(Val(val).result.err)
    /\ IsDecodedResponse =>
          IF SuccessOf(json) = JBool(TRUE)
          THEN LET v == VFromJson(PayloadType(family), ResultOf(json))
               IN  /\ res.ok <=> v.ok
                   /\ res.ok => Val(res.v).result = Ok(v.v)
          ELSE /\ res.ok <=> IsJString(ResultOf(json))
               /\ res.ok => Val(res.v).result = Err(Val(ResultOf(json)))

\* A document with success false and the string "e" as result has decoded to Err("e").
C20_Witness ==
    /\ IsDecodedResponse /\ SuccessOf(json) = JBool(FALSE)
    /\ ResultOf(json) = JString(<<"e">>)
    /\ res.ok /\ Val(res.v).result = Err(<<"e">>)

\* The entries of the list the document holds under key k.
EntriesAt(k) == Val(Val(json)[k])

\* The decodes of the entries of each kind of list.
DecodedModifications == [i \in DOMAIN EntriesAt(<<"m", "o", "d", "i", "f", "i", "c", "a", "t", "i", "o", "n", "s">>) |->
                            JsonToQuerySetModification(EntriesAt(<<"m", "o", "d", "i", "f", "i", "c", "a", "t", "i", "o", "n", "s">>)[i])]
DecodedTransitions == [i \in DOMAIN EntriesAt(<<"m", "o", "d", "i", "f", "i", "c", "a", "t", "i", "o", "n", "s">>) |->
                          JsonToStateModification(PayloadType(family), EntriesAt(<<"m", "o", "d", "i", "f", "i", "c", "a", "t", "i", "o", "n", "s">>)[i])]
DecodedFailures == [i \in DOMAIN EntriesAt(<<"f", "a", "i", "l", "u", "r", "e", "s">>) |->
                       JsonToQueryFailure(EntriesAt(<<"f", "a", "i", "l", "u", "r", "e", "s">>)[i])]

\* Whether some entry failed to decode, and the values of entries that all decoded.
SomeFailed(rs) == \E i \in DOMAIN rs : ~rs[i].ok
ValuesOf(rs) == [i \in DOMAIN rs |-> rs[i].v]

IsDecodedModifyQuerySet ==
    family = "client" /\ dir = "dec" /\ pc = "decoded" /\ json \in ModifyQuerySetJsons
IsDecodedTransitionList ==
    IsServerRun /\ dir = "dec" /\ pc = "decoded" /\ json \in TransitionListJsons
IsDecodedQueriesFailed ==
    IsServerRun /\ dir = "dec" /\ pc = "decoded" /\ json \in QueriesFailedJsons

\* C21: a ModifyQuerySet, Transition or QueriesFailed document with an entry
\* that fails to decode, and a Transition with a start or end version that
\* fails to decode, fails to decode as a whole; a decoded message holds the
\* decode of every entry of the document, in order.
C21_MalformedElementAborts ==
    /\ IsDecodedModifyQuerySet =>
          /\ SomeFailed(DecodedModifications) => ~res.ok
          /\ res.ok => Val(res.v).modifications = ValuesOf(DecodedModifications)
    /\ IsDecodedTransitionList =>
          /\ \/ SomeFailed(DecodedTransitions)
             \/ ~JsonToStateVersion(Val(json)[<<"s", "t", "a", "r", "t", "V", "e", "r", "s", "i", "o", "n">>]).ok
             \/ ~JsonToStateVersion(Val(json)[<<"e", "n", "d", "V", "e", "r", "s", "i", "o", "n">>]).ok
             => ~res.ok
          /\ res.ok => Val(res.v).modifications = ValuesOf(DecodedTransitions)
    /\ IsDecodedQueriesFailed =>
          /\ SomeFailed(DecodedFailures) => ~res.ok
          /\ res.ok => Val(res.v).failures = ValuesOf(DecodedFailures)

\* A ModifyQuerySet whose first entry decodes and whose second does not has
\* failed to decode.
C21_Witness ==
    /\ IsDecodedModifyQuerySet /\ Len(EntriesAt(<<"m", "o", "d", "i", "f", "i", "c", "a", "t", "i", "o", "n", "s">>)) = 2
    /\ DecodedModifications[1].ok /\ ~DecodedModifications[2].ok
    /\ ~res.ok

\* Whether no Object of the value, at any depth, has a field name that begins
\* with "$".
RECURSIVE NoDollarField(_)
NoDollarField(v) ==
    CASE TagOf(v) = "Array" -> \A i \in DOMAIN Val(v) : NoDollarField(Val(v)[i])
      [] TagOf(v) = "Set" -> \A x \in Val(v) : NoDollarField(x)
      [] TagOf(v) = "Map" -> \A k \in DOMAIN Val(v) : NoDollarField(k) /\ NoDollarField(Val(v)[k])
      [] TagOf(v) = "Object" ->
            \A f \in DOMAIN Val(v) : ~(Len(f) > 0 /\ f[1] = "$") /\ NoDollarField(Val(v)[f])
      [] OTHER -> TRUE

\* Whether no Object of the value, at any depth, has a reserved tag as the name
\* of its only field.
RECURSIVE NoLoneReservedField(_)
NoLoneReservedField(v) ==
    CASE TagOf(v) = "Array" -> \A i \in DOMAIN Val(v) : NoLoneReservedField(Val(v)[i])
      [] TagOf(v) = "Set" -> \A x \in Val(v) : NoLoneReservedField(x)
      [] TagOf(v) = "Map" ->
            \A k \in DOMAIN Val(v) : NoLoneReservedField(k) /\ NoLoneReservedField(Val(v)[k])
      [] TagOf(v) = "Object" ->
            /\ Cardinality(DOMAIN Val(v)) = 1 => DOMAIN Val(v) \cap ReservedTags = {}
            /\ \A f \in DOMAIN Val(v) : NoLoneReservedField(Val(v)[f])
      [] OTHER -> TRUE

IsDecodedValue ==
    family = "value" /\ dir = "dec" /\ pc \in {"decoded", "reencoded", "redecoded"} /\ res.ok

\* C22 as stated: no Object of a decoded value, at any depth, has a field name
\* that begins with "$".
C22_NoDollarFieldNames == IsDecodedValue => NoDollarField(res.v)

\* C22, amended: no Object of a decoded value, at any depth, has one of the
\* reserved tags $id, $bytes, $integer, $float, $set, $map as the name of its
\* only field.
C22_NoLoneReservedField == IsDecodedValue => NoLoneReservedField(res.v)

\* An object of two keys, one of them $id, has decoded to an Object with a
\* field named $id.
C22_Witness ==
    /\ IsDecodedValue /\ IsJObject(json)
    /\ Cardinality(DOMAIN Val(json)) = 2 /\ K_id \in DOMAIN Val(json)
    /\ TagOf(res.v) = "Object" /\ K_id \in DOMAIN Val(res.v)
    /\ NoLoneReservedField(res.v)

\* Whether a journal of a Query and what an Add document holds under journal
\* are the same of the three states: unspecified and absent, specified without
\* a value and null, a token and that string.
SameJournal(journal, e) ==
    IF ~journal.some THEN ~HasKey(e, <<"j", "o", "u", "r", "n", "a", "l">>)
    ELSE /\ HasKey(e, <<"j", "o", "u", "r", "n", "a", "l">>)
         /\ IF ~journal.x.some THEN Val(e)[<<"j", "o", "u", "r", "n", "a", "l">>] = JNull
            ELSE Val(e)[<<"j", "o", "u", "r", "n", "a", "l">>] = JString(journal.x.x)

\* The Add entries of a ModifyQuerySet message.
AddEntries(m) == {i \in DOMAIN Val(m).modifications : TagOf(Val(m).modifications[i]) = "Add"}

IsEncodedModifyQuerySet ==
    /\ family = "client" /\ dir = "enc" /\ pc \in {"encoded", "decoded"}
    /\ TagOf(val) = "ModifyQuerySet"

IsDecodedJournal ==
    family = "client" /\ dir = "dec" /\ pc \in {"decoded", "reencoded"} /\ json \in JournalJsons

\* C23: the journal of an Add is encoded as no key when unspecified, as null
\* when specified without a value and as the string of its token, and is
\* decoded from each to the same state; encoding then decoding gives the
\* journal back, and decoding then encoding gives the document back.
C23_JournalStatesKept ==
    /\ IsEncodedModifyQuerySet =>
          \A i \in AddEntries(val) :
              /\ SameJournal(Val(Val(val).modifications[i]).journal, EntriesAt(<<"m", "o", "d", "i", "f", "i", "c", "a", "t", "i", "o", "n", "s">>)[i])
              /\ pc = "decoded" =>
                    /\ res.ok
                    /\ Val(Val(res.v).modifications[i]).journal = Val(Val(val).modifications[i]).journal
    /\ IsDecodedJournal =>
          /\ res.ok
          /\ SameJournal(Val(Val(res.v).modifications[1]).journal, EntriesAt(<<"m", "o", "d", "i", "f", "i", "c", "a", "t", "i", "o", "n", "s">>)[1])
          /\ pc = "reencoded" => json2 = json

\* An Add document with journal null has decoded to a journal specified
\* without a value, and has been encoded again with journal null.
C23_Witness ==
    /\ IsDecodedJournal /\ pc = "reencoded"
    /\ HasKey(EntriesAt(<<"m", "o", "d", "i", "f", "i", "c", "a", "t", "i", "o", "n", "s">>)[1], <<"j", "o", "u", "r", "n", "a", "l">>)
    /\ Val(EntriesAt(<<"m", "o", "d", "i", "f", "i", "c", "a", "t", "i", "o", "n", "s">>)[1])[<<"j", "o", "u", "r", "n", "a", "l">>] = JNull
    /\ res.ok /\ Val(Val(res.v).modifications[1]).journal = Some(None)
    /\ json2 = json

\* The token a Transition holds as ts of its start version, or a
\* MutationResponse as its ts.
TokenOf(j) ==
    IF HasKey(j, <<"s", "t", "a", "r", "t", "V", "e", "r", "s", "i", "o", "n">>) THEN Val(Val(Val(j)[<<"s", "t", "a", "r", "t", "V", "e", "r", "s", "i", "o", "n">>])[<<"t", "s">>])
    ELSE Val(Val(j)[<<"t", "s">>])

\* The strings that are not the base64 of exactly 8 bytes.
BadTexts == ShortTexts \cup LongTexts \cup NotBase64Texts

IsDecodedToken == family = "u64" /\ dir = "dec" /\ pc = "decoded"
IsDecodedTokenJson == IsServerRun /\ dir = "dec" /\ pc = "decoded" /\ json \in TokenJsons

\* C24: string_to_u64 fails for every string that is not standard base64 or
\* that is the base64 of fewer or of more than 8 bytes, and gives the word of
\* the token of 8 bytes; a Transition whose start version holds such a string
\* as ts and a MutationResponse with such a ts fail to decode.
C24_MalformedTokenFails ==
    /\ IsDecodedToken =>
          /\ json \in BadTexts => ~res.ok
          /\ \A x \in U64Inputs : json = u64_to_string(x) => res = Ok(x)
    /\ IsDecodedTokenJson =>
          /\ TokenOf(json) \in BadTexts => ~res.ok
          /\ TokenOf(json) \in WordTexts => res.ok

\* A Transition whose start version holds the base64 of 7 bytes as ts has
\* failed to decode.
C24_Witness ==
    /\ IsDecodedTokenJson /\ HasKey(json, <<"s", "t", "a", "r", "t", "V", "e", "r", "s", "i", "o", "n">>)
    /\ TokenOf(json) = B64Encode(<<1, 1, 1, 1, 1, 1, 1>>)
    /\ ~res.ok

\* A document that has decoded to a Float64 and has been encoded again.
IsReencodedFloat ==
    /\ family = "value" /\ dir = "dec" /\ pc \in {"reencoded", "redecoded"}
    /\ res.ok /\ TagOf(res.v) = "Float64"

\* C25: every JSON document that decodes to a Float64 is the encoding of that
\* Float64: no double is accepted both as a bare number and as a $float object.
C25_CanonicalFloatUnique == IsReencodedFloat => json2 = json

\* Two documents without tokenIdentifier have decoded.
IsDecodedPair ==
    family = "uia" /\ dir = "pair" /\ pc = "decoded" /\ res.ok /\ res2.ok

\* The issuer and the subject of a document.
IssuerOf(j) == Val(Val(j)[<<"i", "s", "s", "u", "e", "r">>])
SubjectOf(j) == Val(Val(j)[<<"s", "u", "b", "j", "e", "c", "t">>])

SamePair == IssuerOf(json) = IssuerOf(json2) /\ SubjectOf(json) = SubjectOf(json2)

HasSeparator(s) == \E i \in DOMAIN s : s[i] = "|"

\* C26 as stated: two documents without tokenIdentifier decode to the same
\* token_identifier only if they have the same issuer and the same subject.
C26_DerivedKeyInjective ==
    IsDecodedPair /\ res.v.token_identifier = res2.v.token_identifier => SamePair

\* C26, amended: two documents without tokenIdentifier whose issuers hold no
\* "|" decode to the same token_identifier only if they have the same issuer
\* and the same subject.
C26_InjectiveWithoutSeparator ==
    (/\ IsDecodedPair
     /\ ~HasSeparator(IssuerOf(json)) /\ ~HasSeparator(IssuerOf(json2))
     /\ res.v.token_identifier = res2.v.token_identifier) => SamePair

\* Two documents of the same issuer, without "|", and of different subjects,
\* one with "|", have decoded to different identifiers.
C26_Witness ==
    /\ IsDecodedPair
    /\ IssuerOf(json) = <<"a">> /\ IssuerOf(json2) = <<"a">>
    /\ SubjectOf(json) = <<"b", "|", "c">> /\ SubjectOf(json2) = <<"c">>
    /\ res.v.token_identifier = <<"a", "|", "b", "|", "c">> /\ res2.v.token_identifier = <<"a", "|", "c">>

\* A decoded ModifyQuerySet document of any of the input sets.
IsDecodedAnyModifyQuerySet ==
    /\ family = "client" /\ dir = "dec" /\ pc \in {"decoded", "reencoded"}
    /\ json \in ModifyQuerySetJsons \cup JournalJsons \cup MissingIdJsons

\* C27: a ModifyQuerySet document with an Add or Remove entry that holds no
\* queryId fails to decode: every query_id of a decoded message is the
\* queryId of its entry.
C27_NoFabricatedQueryId ==
    IsDecodedAnyModifyQuerySet /\ res.ok =>
        \A i \in DOMAIN EntriesAt(<<"m", "o", "d", "i", "f", "i", "c", "a", "t", "i", "o", "n", "s">>) :
            /\ HoldsId(EntriesAt(<<"m", "o", "d", "i", "f", "i", "c", "a", "t", "i", "o", "n", "s">>)[i], <<"q", "u", "e", "r", "y", "I", "d">>)
            /\ Val(Val(res.v).modifications[i]).query_id = IdAt(EntriesAt(<<"m", "o", "d", "i", "f", "i", "c", "a", "t", "i", "o", "n", "s">>)[i], <<"q", "u", "e", "r", "y", "I", "d">>)

=============================================================================
